---- MODULE Spec2Model ----
(***************************************************************************)
(* envm: the two platform adapters (platform/posix.mjs, platform/win.mjs)  *)
(* and the backup store (backup.mjs) as a state machine.                   *)
(*                                                                         *)
(* A medium is one record for every scope: a POSIX file is a sequence of   *)
(* lines (the text is the lines joined by "\n", so the empty text is the   *)
(* one empty line), a registry key is a function from value names to data. *)
(* A string value is a sequence of one-character tokens.  An async         *)
(* function is cut at its awaits: one action per stretch of code between   *)
(* two awaits.                                                             *)
(***************************************************************************)
EXTENDS Integers, Sequences, FiniteSets, TLC

VARIABLES
    platform,    \* "posix" or "win": the adapter index.mjs selects at load
    hasRequire,  \* whether require is defined where win.mjs and backup.mjs run
    limit,       \* calls the behaviour may make
    backupDir,   \* backup.mjs _backupDir: the directory set, or Null
    dirs,        \* the directories that exist
    env,         \* process.env; on Windows its keys ignore letter case
    medium,      \* per scope: ~/.profile, /etc/environment, or a registry key
    backups,     \* the files of the backup directory
    now,         \* the instant new Date() gives; the calls of one behaviour of
                 \* Spec fall within one instant
    nops,        \* calls made so far
    pc,          \* per call: the await it is suspended at, "done" or "threw"
    op,          \* per call: its arguments and options
    oldContent,  \* per call: the local oldContent (win.mjs: stdout of the export)
    backupPath,  \* per call: the local backupPath
    res,         \* per call: the value it resolved to
    hist         \* per call: what it has done to the medium so far

vars == <<platform, hasRequire, limit, backupDir, dirs, env, medium, backups, now,
          nops, pc, op, oldContent, backupPath, res, hist>>

\* what no call changes: the host and the length of the behaviour
conf == <<platform, hasRequire, limit>>

-----------------------------------------------------------------------------
(* Bounds of the model *)

\* mutations and reads started in one behaviour
MaxOps == 1

\* set and unset calls one caller makes one after the other on a medium that
\* starts empty
MaxSeq == 3

\* createBackup and purge calls one caller makes one after the other
MaxPurgeOps == 4

\* setBackupDir and createBackup calls one caller makes one after the other
MaxBackupOps == 3

\* createBackup, restore and restoreFromBackup calls one caller makes one
\* after the other
MaxStoreOps == 3

\* the last instant of the clock; one instant is one day after the other
MaxTime == 2

\* setBackupDir calls and calls of the backup store one caller makes one after
\* the other
MaxDirOps == 4

\* set calls two callers make at the same time
MaxRaceOps == 2

\* calls of split, join and unique one caller makes one after the other
MaxPathOps == 2

\* the segments of a sequence of segments
MaxSegments == 2

\* getExpanded calls one caller makes one after the other
MaxExpandOps == 1

\* calls one caller makes one after the other with the two spellings of a name
MaxCaseOps == 2

\* calls of the path helpers in one behaviour of AppendSpec
MaxAppendOps == 2

\* runs of the CLI in one behaviour of CliSpec
MaxCliOps == 2

\* calls of createBackup and purge in one behaviour of ForeignSpec
MaxForeignOps == 3

\* calls of set and unset in one behaviour of UnsetSpec
MaxUnsetOps == 2

-----------------------------------------------------------------------------
(* Domains *)

Procs == {"caller", "other"}

Scopes == {"session", "user", "system"}

\* variable names: "foo" and "FOO" differ only in letter case
Names == {"FOO", "foo", "BAR", "MY-VAR"}

\* the names made of letters, digits and "_" only
WordNames == {"FOO", "foo", "BAR"}

\* names the operations are called with
OpNames == {"FOO", "foo"}

\* values the operations are called with; the last has a leading blank
OpValues == {<<"a">>, <<"b">>, <<" ", "a">>}

\* JavaScript undefined, as a value no string equals
Undef == <<"undefined">>

\* the outcome of a call that threw
Threw == <<"threw">>

NoName == ""

NoValue == <<>>

-----------------------------------------------------------------------------
(* Lines of the POSIX files *)

Line(k, n, v) == [k |-> k, n |-> n, v |-> v]

\* "# envm-begin"
Begin == Line("begin", NoName, NoValue)

\* "# envm-end"
End == Line("end", NoName, NoValue)

\* ""
Empty == Line("empty", NoName, NoValue)

\* any other text that names no variable
Text == Line("text", NoName, NoValue)

\* "export NAME='value'"
ExportLine(n, v) == Line("export", n, v)

\* "exportsNAME=": "export", one or more "s", the name, "="
ExportsLine(n) == Line("exports", n, NoValue)

\* "NAME='value'"
AssignLine(n, v) == Line("assign", n, v)

\* the text "" as lines
EmptyText == <<Empty>>

\* index of the first line of kind k at or after from, 0 when there is none:
\* where a regular expression that names a marker matches first
FirstIndex(s, from, k) ==
    LET hits == {i \in from..Len(s) : s[i].k = k}
    IN  IF hits = {} THEN 0 ELSE CHOOSE i \in hits : \A j \in hits : i <= j

\* lines.join("\n") as lines: joining no line gives the empty text
JoinLines(ls) == IF ls = <<>> THEN EmptyText ELSE ls

-----------------------------------------------------------------------------
(* platform/posix.mjs: the new content of ~/.profile (scope user) *)

\* filter(Boolean): the empty string is the only falsy line
NonEmptyLine(l) == l.k # "empty"

\* index of the first "# envm-begin", 0 when there is none
BlockBegin(content) == FirstIndex(content, 1, "begin")

\* index of the first "# envm-end" after the first "# envm-begin", 0 when
\* there is none: both regular expressions are lazy, [\s\S]*?
BlockEnd(content) ==
    IF BlockBegin(content) = 0 THEN 0
    ELSE FirstIndex(content, BlockBegin(content) + 1, "end")

\* oldContent.match(/# envm-begin\n([\s\S]*?)# envm-end/m) is not null
HasBlock(content) == BlockEnd(content) # 0

\* block ? block[1].split(/\n/) : []   (the split leaves a last empty line)
BlockLines(content) ==
    IF HasBlock(content)
    THEN SubSeq(content, BlockBegin(content) + 1, BlockEnd(content) - 1) \o <<Empty>>
    ELSE <<>>

\* `# envm-begin\n${lines.filter(Boolean).join("\n")}\n# envm-end`
NewBlock(lines) == <<Begin>> \o JoinLines(SelectSeq(lines, NonEmptyLine)) \o <<End>>

\* oldContent.replace(/# envm-begin[\s\S]*?# envm-end/m, newBlock)
ReplaceBlock(content, newBlock) ==
    IF HasBlock(content)
    THEN SubSeq(content, 1, BlockBegin(content) - 1) \o newBlock
         \o SubSeq(content, BlockEnd(content) + 1, Len(content))
    ELSE content

\* a content that is never given a block
AppendBlockNever(newContent, newBlock) == newContent

\* if (!/# envm-begin/.test(newContent)) newContent += `\n${newBlock}\n`
AppendBlockIfNoBegin(newContent, newBlock) ==
    IF BlockBegin(newContent) # 0 THEN newContent
    ELSE newContent \o newBlock \o <<Empty>>

\* l.match(/^export\s+(\w+)=(.*)$/) with m[1] === name: \w+ has to reach
\* the "="
IsExportOf(l, name) == l.k = "export" /\ l.n \in WordNames /\ l.n = name

\* set, scope user: the lines of the block with the entry of name replaced,
\* or pushed when no line matched
UserSetLines(lines, name, value) ==
    LET mapped == [i \in 1..Len(lines) |->
                     IF IsExportOf(lines[i], name) THEN ExportLine(name, value)
                     ELSE lines[i]]
        found  == \E i \in 1..Len(lines) : IsExportOf(lines[i], name)
    IN  IF found THEN mapped ELSE Append(mapped, ExportLine(name, value))

\* set, scope user: newContent
UserSetContent(content, name, value) ==
    LET newBlock == NewBlock(UserSetLines(BlockLines(content), name, value))
    IN  AppendBlockIfNoBegin(ReplaceBlock(content, newBlock), newBlock)

\* l.match(new RegExp(`^export\s+${name}=`)): in the template literal "\s" is
\* the letter s, so the expression is /^exports+NAME=/
UnsetLineMatches(l, name) == l.k = "exports" /\ l.n = name

\* unset, scope user: the lines of the block that stay
UserUnsetLines(lines, name) ==
    SelectSeq(lines, LAMBDA l : ~UnsetLineMatches(l, name))

\* unset, scope user: newContent
UserUnsetContent(content, name) ==
    LET newBlock == NewBlock(UserUnsetLines(BlockLines(content), name))
    IN  AppendBlockIfNoBegin(ReplaceBlock(content, newBlock), newBlock)

-----------------------------------------------------------------------------
(* platform/posix.mjs: the new content of /etc/environment (scope system) *)

\* l.startsWith(name + "=")
StartsWithName(l, name) == l.k = "assign" /\ l.n = name

\* set, scope system: newContent
SystemSetContent(content, name, value) ==
    LET mapped == [i \in 1..Len(content) |->
                     IF StartsWithName(content[i], name) THEN AssignLine(name, value)
                     ELSE content[i]]
        found  == \E i \in 1..Len(content) : StartsWithName(content[i], name)
    IN  JoinLines(IF found THEN mapped ELSE Append(mapped, AssignLine(name, value)))

\* unset, scope system: newContent
SystemUnsetContent(content, name) ==
    JoinLines(SelectSeq(content, LAMBDA l : ~StartsWithName(l, name)))

\* the content set or unset writes to the file of the scope
PosixNewContent(o, content) ==
    IF o.scope = "user"
    THEN IF o.kind = "set" THEN UserSetContent(content, o.name, o.value)
         ELSE UserUnsetContent(content, o.name)
    ELSE IF o.kind = "set" THEN SystemSetContent(content, o.name, o.value)
         ELSE SystemUnsetContent(content, o.name)

-----------------------------------------------------------------------------
(* platform/win.mjs: names and registry data *)

\* k.toUpperCase() on the names of the model
CASE_NORMALIZE(k) == IF k = "foo" THEN "FOO" ELSE k

RECURSIVE TrimStart(_)
TrimStart(v) == IF v # <<>> /\ Head(v) = " " THEN TrimStart(Tail(v)) ELSE v

RECURSIVE TrimEnd(_)
TrimEnd(v) ==
    IF v # <<>> /\ v[Len(v)] = " " THEN TrimEnd(SubSeq(v, 1, Len(v) - 1)) ELSE v

\* the data getRaw takes from the output of reg query:
\* stdout.match(/\s+REG_\w+\s+(.+)/) and then m[1].trim()
RegQueryData(data) == TrimEnd(TrimStart(data))

\* a registry key without values
EmptyKey == [n \in Names |-> Undef]

\* reg import: every value of the exported key is written back, a value the
\* export does not hold stays
RegImport(key, exported) ==
    [n \in Names |-> IF exported[n] # Undef THEN exported[n] ELSE key[n]]

-----------------------------------------------------------------------------
(* backup.mjs: the backup directory.  A path is its segments. *)

\* _backupDir = null
Null == [abs |-> FALSE, segs |-> <<"null">>]

\* the path ""
NoDir == [abs |-> FALSE, segs |-> <<>>]

\* process.cwd()
Cwd == [abs |-> TRUE, segs |-> <<"cwd">>]

\* ".backup/.envm-backups"
DefaultRel == [abs |-> FALSE, segs |-> <<".backup", ".envm-backups">>]

\* path.join(base, rel)
Join(base, rel) == [abs |-> base.abs, segs |-> base.segs \o rel.segs]

\* path.isAbsolute(dir)
IsAbsolute(dir) == dir.abs

\* require.main.path: the directory of the entry script
MainPath == [abs |-> TRUE, segs |-> <<"main">>]

\* getDefaultBackupDir(): base is require.main.path where require is defined,
\* and process.cwd() where it is not
ProjectRoot == IF hasRequire THEN MainPath ELSE Cwd

\* getDefaultBackupDir(): join(base, ".backup/.envm-backups")
GetDefaultBackupDir == Join(ProjectRoot, DefaultRel)

\* the value setBackupDir(dir) gives _backupDir; process.env.INIT_CWD is not
\* set
SetDir(dir) ==
    IF dir # NoDir /\ IsAbsolute(dir) THEN dir
    ELSE Join(Cwd, IF dir # NoDir THEN dir ELSE DefaultRel)

\* a getBackupDir that does not look at _backupDir
GetBackupDirDefault == GetDefaultBackupDir

\* getBackupDir(): _backupDir || getDefaultBackupDir()
GetBackupDir == IF backupDir # Null THEN backupDir ELSE GetDefaultBackupDir

-----------------------------------------------------------------------------
(* Media, backup records, operations *)

\* a POSIX file that does not exist
NoFile == [exists |-> FALSE, lines |-> EmptyText, reg |-> EmptyKey]

FileOf(lines) == [exists |-> TRUE, lines |-> lines, reg |-> EmptyKey]

KeyOf(key) == [exists |-> TRUE, lines |-> EmptyText, reg |-> key]

\* what a snapshot holds: the text of a file, or the export of a key
Snapshot(lines, key) == [lines |-> lines, reg |-> key]

NoSnapshot == Snapshot(<<>>, EmptyKey)

\* the path createBackup returns: join(dir, `${scope}-${name}-${ts}.bak`)
BackupFile(scope, name, ts) ==
    [dir |-> GetBackupDir, scope |-> scope, name |-> name, ts |-> ts]

\* backupPath of an operation that made no backup
NoPath == [dir |-> NoDir, scope |-> "", name |-> NoName, ts |-> -1]

\* fs.writeFile(file, value): the file of that name is created or overwritten
WriteBackupFile(dir, file, content) ==
    {b \in dir : b.file # file} \cup {[file |-> file, content |-> content]}

\* the name of a backup file, as list gives it and restore takes it
Id(scope, name, ts) == [scope |-> scope, name |-> name, ts |-> ts]

IdOf(file) == Id(file.scope, file.name, file.ts)

NoId == IdOf(NoPath)

\* restore: file = join(dir, id)
PathOfId(id) ==
    [dir |-> GetBackupDir, scope |-> id.scope, name |-> id.name, ts |-> id.ts]

NoOp == [kind |-> "none", name |-> NoName, value |-> NoValue, scope |-> "session",
         backup |-> FALSE, verify |-> FALSE, rollbackOnFail |-> FALSE,
         maxPerScope |-> 0, maxAgeDays |-> 0, id |-> NoId, dir |-> NoDir,
         segments |-> <<>>, delim |-> ":", caseInsensitive |-> FALSE,
         path |-> "none", unique |-> FALSE]

NoRes == [ok |-> FALSE, verification |-> FALSE, rollback |-> "none",
          note |-> "none", value |-> Undef, count |-> 0, segments |-> <<>>]

\* { ok, scope, name, previous, next, verification, rollback, notes }
Result(ok, verification, rollback, note) ==
    [ok |-> ok, verification |-> verification, rollback |-> rollback,
     note |-> note, value |-> Undef, count |-> 0, segments |-> <<>>]

\* what getRaw resolves to
ReadResult(value) ==
    [ok |-> TRUE, verification |-> FALSE, rollback |-> "none",
     note |-> "read", value |-> value, count |-> 0, segments |-> <<>>]

\* what a purge knows of the call before it: whether that was a purge with
\* the same policy that returned, whether it read the directory and unlinked
\* every file it tried to, and what it returned
NoPurge == [same |-> FALSE, clean |-> FALSE, count |-> 0]

\* what a call has done so far: the medium before its write, whether the write
\* was made or failed, and what the re-read of step 5 gave; for a purge, the
\* files it read, those it tried to unlink, those it failed to, and its time;
\* for a call of backup.mjs, the argument of the last setBackupDir; for a
\* getExpanded, the raw value it expands; for a split, whether its text is
\* what the join before it returned; for a call the CLI makes, whether
\* --dry-run was given
NoHist == [wrote |-> FALSE, wfail |-> FALSE, reread |-> FALSE, got |-> Undef,
           pre |-> NoFile, files |-> {}, tried |-> {}, failed |-> {},
           time |-> 0, read |-> FALSE, prev |-> NoPurge, dirarg |-> Null,
           raw |-> Undef, joined |-> FALSE, dryRun |-> FALSE]

\* the name an adapter works with
AdapterName(name) == IF platform = "win" THEN CASE_NORMALIZE(name) ELSE name

\* the intended post-state: value for set, undefined for unset
Intended(o) == IF o.kind = "set" THEN o.value ELSE Undef

-----------------------------------------------------------------------------
(* getRaw *)

\* posix.mjs getRaw: the user and system scopes throw "Not implemented"
PosixGetRaw(name, scope) ==
    IF scope = "session" THEN env[name] ELSE Threw

\* win.mjs getRaw: reg query, and undefined when the tool fails or finds no
\* such value
WinGetRaw(name, scope, queryFails) ==
    IF scope = "session" THEN env[CASE_NORMALIZE(name)]
    ELSE IF queryFails \/ medium[scope].reg[CASE_NORMALIZE(name)] = Undef THEN Undef
    ELSE RegQueryData(medium[scope].reg[CASE_NORMALIZE(name)])

\* envManager.getRaw = adapter.getRaw
GetRaw(name, scope, queryFails) ==
    IF platform = "win" THEN WinGetRaw(name, scope, queryFails)
    ELSE PosixGetRaw(name, scope)

\* the outcomes reg query can have
QueryOutcomes == IF platform = "win" THEN BOOLEAN ELSE {FALSE}

-----------------------------------------------------------------------------
(* Initial states: the host before the first call *)

InitEnvs ==
    { [n \in Names |-> IF n = "BAR" THEN <<"b">> ELSE Undef],
      [n \in Names |-> IF n = "BAR" THEN <<"b">>
                       ELSE IF n = "FOO" THEN <<"a">> ELSE Undef] }

\* ~/.profile: missing, without block, with a block, with a begin marker only
InitProfiles ==
    { NoFile,
      FileOf(<<Text, Empty>>),
      FileOf(<<Text, Begin, ExportLine("BAR", <<"b">>), ExportLine("FOO", <<"a">>),
               ExportsLine("FOO"), End, Text, Empty>>),
      FileOf(<<Text, Begin, ExportLine("FOO", <<"a">>), Empty>>) }

\* /etc/environment
InitSystemFiles ==
    { NoFile,
      FileOf(<<AssignLine("BAR", <<"b">>), AssignLine("FOO", <<"a">>), Empty>>) }

\* HKCU\Environment and the Session Manager key
InitKeys ==
    { KeyOf(EmptyKey),
      KeyOf([n \in Names |-> IF n = "BAR" THEN <<"b">>
                             ELSE IF n = "FOO" THEN <<"a">> ELSE Undef]) }

InitMedia ==
    IF platform = "win"
    THEN {[s \in Scopes |-> IF s = "user" THEN u ELSE IF s = "system" THEN y
                            ELSE NoFile] : u \in InitKeys, y \in InitKeys}
    ELSE {[s \in Scopes |-> IF s = "user" THEN u ELSE IF s = "system" THEN y
                            ELSE NoFile] : u \in InitProfiles, y \in InitSystemFiles}

Init ==
    /\ platform \in {"posix", "win"}
    /\ hasRequire \in (IF platform = "win" THEN BOOLEAN ELSE {FALSE})
    /\ limit = MaxOps
    /\ backupDir = Null
    /\ dirs = {}
    /\ env \in InitEnvs
    /\ medium \in InitMedia
    /\ backups = {}
    /\ now = 0
    /\ nops = 0
    /\ pc = [p \in Procs |-> "idle"]
    /\ op = [p \in Procs |-> NoOp]
    /\ oldContent = [p \in Procs |-> NoSnapshot]
    /\ backupPath = [p \in Procs |-> NoPath]
    /\ res = [p \in Procs |-> NoRes]
    /\ hist = [p \in Procs |-> NoHist]

-----------------------------------------------------------------------------
(* The calls.  A process is one pending call of the API. *)

Idle(p) == pc[p] \in {"idle", "done", "threw"}

\* a call has just been entered, with its arguments and locals
EnterWith(p, o, content, path, h) ==
    /\ Idle(p)
    /\ nops < limit
    /\ nops' = nops + 1
    /\ op' = [op EXCEPT ![p] = o]
    /\ oldContent' = [oldContent EXCEPT ![p] = content]
    /\ backupPath' = [backupPath EXCEPT ![p] = path]
    /\ hist' = [hist EXCEPT ![p] = h]

\* the locals of a set, unset or getRaw that has just been entered
Enter(p, o) ==
    EnterWith(p, o, NoSnapshot, NoPath, [NoHist EXCEPT !.dirarg = hist[p].dirarg])

\* getRaw(name, {scope}) up to its first await
CallGetRaw(p, name, scope) ==
    LET o == [NoOp EXCEPT !.kind = "getRaw", !.name = AdapterName(name),
                          !.scope = scope]
    IN  /\ Enter(p, o)
        /\ IF scope = "session" \/ platform = "posix"
           THEN LET out == GetRaw(o.name, scope, FALSE)
                IN  /\ pc' = [pc EXCEPT ![p] = IF out = Threw THEN "threw" ELSE "done"]
                    /\ res' = [res EXCEPT ![p] = IF out = Threw THEN NoRes
                                                 ELSE ReadResult(out)]
           ELSE /\ pc' = [pc EXCEPT ![p] = "query"]
                /\ res' = [res EXCEPT ![p] = NoRes]
        /\ UNCHANGED <<conf, backupDir, dirs, env, medium, backups, now>>

\* win.mjs getRaw: execFileAsync("reg", ["query", ...]) has ended
Query(p) ==
    /\ pc[p] = "query"
    /\ \E queryFails \in BOOLEAN :
         res' = [res EXCEPT ![p] = ReadResult(GetRaw(op[p].name, op[p].scope, queryFails))]
    /\ pc' = [pc EXCEPT ![p] = "done"]
    /\ UNCHANGED <<conf, backupDir, dirs, env, medium, backups, now, nops,
                   op, oldContent, backupPath, hist>>

\* a session write that replaces the table instead of updating one entry
SessionEnvReplacesTable(e, o) ==
    [n \in Names |-> IF n = o.name THEN Intended(o) ELSE Undef]

\* scope session: process.env[name] = value, or delete process.env[name]
SessionEnv(e, o) == [e EXCEPT ![o.name] = Intended(o)]

\* the result of a set or unset at scope session
SessionResult == Result(TRUE, TRUE, "null", "session only")

\* set and unset up to their first await
Mutate(p, o) ==
    /\ Enter(p, o)
    /\ IF o.scope = "session"
       THEN /\ env' = SessionEnv(env, o)
            /\ res' = [res EXCEPT ![p] = SessionResult]
            /\ pc' = [pc EXCEPT ![p] = "done"]
       ELSE /\ env' = env
            /\ res' = [res EXCEPT ![p] = NoRes]
            /\ pc' = [pc EXCEPT ![p] = IF platform = "posix" THEN "read"
                                       ELSE IF o.backup THEN "export" ELSE "write"]
    /\ UNCHANGED <<conf, backupDir, dirs, medium, backups, now>>

\* set(name, value, {scope, backup, verify, rollbackOnFail})
CallSet(p, name, value, scope, doBackup, verify, rollbackOnFail) ==
    Mutate(p, [NoOp EXCEPT !.kind = "set", !.name = AdapterName(name),
                           !.value = value, !.scope = scope, !.backup = doBackup,
                           !.verify = verify, !.rollbackOnFail = rollbackOnFail])

\* unset(name, {scope, backup, verify, rollbackOnFail})
CallUnset(p, name, scope, doBackup, verify, rollbackOnFail) ==
    Mutate(p, [NoOp EXCEPT !.kind = "unset", !.name = AdapterName(name),
                           !.scope = scope, !.backup = doBackup,
                           !.verify = verify, !.rollbackOnFail = rollbackOnFail])

\* try { oldContent = await fs.readFile(file, "utf8") } catch { oldContent = "" }
ReadContent(m) == IF m.exists THEN m.lines ELSE EmptyText

\* posix.mjs: readFile has ended; createBackup takes its timestamp at once
ReadFile(p) ==
    /\ pc[p] = "read"
    /\ oldContent' = [oldContent EXCEPT
                        ![p] = Snapshot(ReadContent(medium[op[p].scope]), EmptyKey)]
    /\ backupPath' = [backupPath EXCEPT
                        ![p] = IF op[p].backup
                               THEN BackupFile(op[p].scope, op[p].name, now)
                               ELSE NoPath]
    /\ pc' = [pc EXCEPT ![p] = IF op[p].backup THEN "backup" ELSE "write"]
    /\ UNCHANGED <<conf, backupDir, dirs, env, medium, backups, now, nops,
                   op, res, hist>>

\* win.mjs: reg export has ended; a failure is swallowed by catch {}
Export(p) ==
    /\ pc[p] = "export"
    /\ \E exported \in BOOLEAN :
         IF exported
         THEN /\ oldContent' = [oldContent EXCEPT
                                  ![p] = Snapshot(<<>>, medium[op[p].scope].reg)]
              /\ backupPath' = [backupPath EXCEPT
                                  ![p] = BackupFile(op[p].scope, op[p].name, now)]
              /\ pc' = [pc EXCEPT ![p] = "backup"]
         ELSE /\ UNCHANGED <<oldContent, backupPath>>
              /\ pc' = [pc EXCEPT ![p] = "write"]
    /\ UNCHANGED <<conf, backupDir, dirs, env, medium, backups, now, nops,
                   op, res, hist>>

\* where a failure of createBackup takes the caller: posix.mjs lets it
\* propagate, win.mjs swallows it and goes on to the write; a direct caller
\* gets the rejection
AfterBackupFailure(o) ==
    IF o.kind = "createBackup" \/ platform = "posix" THEN "threw" ELSE "write"

\* where createBackup returns to: set and unset go on to their write
AfterBackup(o) == IF o.kind = "createBackup" THEN "done" ELSE "write"

\* how far createBackup can get: mkdir fails, writeFile fails, neither does
BackupOutcomes == {"nodir", "nofile", "written"}

\* backup.mjs createBackup: mkdir and writeFile have ended
CreateBackup(p) ==
    /\ pc[p] = "backup"
    /\ \E outcome \in BackupOutcomes :
         /\ dirs' = IF outcome = "nodir" THEN dirs ELSE dirs \cup {backupPath[p].dir}
         /\ IF outcome = "written"
            THEN /\ backups' = WriteBackupFile(backups, backupPath[p], oldContent[p])
                 /\ pc' = [pc EXCEPT ![p] = AfterBackup(op[p])]
                 /\ UNCHANGED backupPath
            ELSE /\ backups' = backups
                 /\ backupPath' = [backupPath EXCEPT ![p] = NoPath]
                 /\ pc' = [pc EXCEPT ![p] = AfterBackupFailure(op[p])]
    /\ UNCHANGED <<conf, backupDir, env, medium, now, nops,
                   op, oldContent, res, hist>>

\* reg add name /d value /f, or reg delete name /f
WinWriteKey(key, o) == [key EXCEPT ![o.name] = Intended(o)]

\* a write that computes the new content from what the medium holds when the
\* write is made
WrittenInPlace(m, o, content) ==
    IF platform = "posix" THEN FileOf(PosixNewContent(o, ReadContent(m)))
    ELSE KeyOf(WinWriteKey(m.reg, o))

\* the medium after the write of step 4
Written(m, o, content) ==
    IF platform = "posix" THEN FileOf(PosixNewContent(o, content.lines))
    ELSE KeyOf(WinWriteKey(m.reg, o))

\* whether the write can succeed, can fail: any write can fail, and reg delete
\* of a value the key does not hold exits nonzero
WriteOutcomes(m, o) ==
    IF platform = "win" /\ o.kind = "unset" /\ m.reg[o.name] = Undef
    THEN {FALSE} ELSE BOOLEAN

\* win.mjs: catch (e) { return { ok: false, ..., verification: false,
\* rollback: null, notes: [e.message] } }
WriteFailedResult == Result(FALSE, FALSE, "null", "error")

\* fs.writeFile(file, newContent), reg add or reg delete has ended
Write(p) ==
    /\ pc[p] = "write"
    /\ \E written \in WriteOutcomes(medium[op[p].scope], op[p]) :
         IF written
         THEN /\ medium' = [medium EXCEPT
                              ![op[p].scope] = Written(@, op[p], oldContent[p])]
              /\ hist' = [hist EXCEPT ![p].wrote = TRUE,
                                      ![p].pre = medium[op[p].scope]]
              /\ pc' = [pc EXCEPT ![p] = "verify"]
              /\ res' = res
         ELSE /\ medium' = medium
              /\ hist' = [hist EXCEPT ![p].wfail = TRUE]
              /\ pc' = [pc EXCEPT ![p] = IF platform = "posix" THEN "threw" ELSE "done"]
              /\ res' = [res EXCEPT ![p] = IF platform = "posix" THEN NoRes
                                           ELSE WriteFailedResult]
    /\ UNCHANGED <<conf, backupDir, dirs, env, backups, now, nops,
                   op, oldContent, backupPath>>

\* if (!verification && rollbackOnFail && doBackup)               posix.mjs
\* if (!verification && rollbackOnFail && doBackup && backupPath)   win.mjs
NeedsRollback(o, verification, path) ==
    /\ ~verification
    /\ o.rollbackOnFail
    /\ o.backup
    /\ platform = "win" => path # NoPath

\* a result whose ok says "the write did not throw"
ResultOkWhenWritten(verification, rollback) ==
    Result(TRUE, verification, rollback, "medium")

\* return { ok: verification, ..., verification, rollback, notes: [file] }
VerifiedResult(verification, rollback) ==
    Result(verification, verification, rollback, "medium")

\* verification = (await getRaw(name, { scope })) === value: the re-read is
\* made whatever the verify option is
Verify(p) ==
    /\ pc[p] = "verify"
    /\ \E queryFails \in QueryOutcomes :
         LET out == GetRaw(op[p].name, op[p].scope, queryFails)
             verification == out = Intended(op[p])
         IN  IF out = Threw
             THEN /\ pc' = [pc EXCEPT ![p] = "threw"]
                  /\ res' = res
                  /\ hist' = [hist EXCEPT ![p].reread = TRUE, ![p].got = out]
             ELSE IF NeedsRollback(op[p], verification, backupPath[p])
             THEN /\ pc' = [pc EXCEPT ![p] = "rollback"]
                  /\ res' = res
                  /\ hist' = [hist EXCEPT ![p].reread = TRUE, ![p].got = out]
             ELSE /\ pc' = [pc EXCEPT ![p] = "done"]
                  /\ res' = [res EXCEPT ![p] = VerifiedResult(verification, "undefined")]
                  /\ hist' = [hist EXCEPT ![p].reread = TRUE, ![p].got = out]
    /\ UNCHANGED <<conf, backupDir, dirs, env, medium, backups, now, nops,
                   op, oldContent, backupPath>>

\* a readdir that gives the files of every directory
ReaddirAll(files) == files

\* fs.readdir(getBackupDir()): the files of the backup directory
Readdir(files) == {b \in files : b.file.dir = GetBackupDir}

\* backup.mjs list({scope}): files.filter((f) => f.startsWith(scope + "-"))
List(files, scope) == {b \in Readdir(files) : b.file.scope = scope}

\* fs.readFile(backupPath): the content of the file of that name
BackupContent(dir, file) == (CHOOSE b \in dir : b.file = file).content

\* backup.mjs list: whether its readdir succeeds, can fail
ListOutcomes == IF platform = "win" THEN BOOLEAN ELSE {TRUE}

\* the files backup.list sees: none after a failed readdir, catch { return [] }
Listed(dir, listed) == IF listed THEN dir ELSE {}

\* win.mjs rollback: whether the body of the try block can end without an
\* exception, can throw.  require is not defined in an ES module, the file of
\* the backup may be gone, and any of the I/O steps can fail.
WinImportOutcomes(dir, o, path) ==
    IF List(dir, o.scope) = {} THEN {TRUE}
    ELSE IF ~hasRequire \/ ~\E b \in dir : b.file = path THEN {FALSE}
    ELSE BOOLEAN

\* the medium after a rollback that ended without an exception
RolledBack(m, dir, o, old, path) ==
    IF platform = "posix" THEN FileOf(old.lines)
    ELSE IF List(dir, o.scope) = {} THEN m
    ELSE KeyOf(RegImport(m.reg, BackupContent(dir, path).reg))

\* the rollback of step 6 has ended
Rollback(p) ==
    /\ pc[p] = "rollback"
    /\ \E listed \in ListOutcomes :
       \E restored \in (IF platform = "posix" THEN BOOLEAN
                        ELSE WinImportOutcomes(Listed(backups, listed), op[p],
                                               backupPath[p])) :
         IF restored
         THEN /\ medium' = [medium EXCEPT
                              ![op[p].scope] = RolledBack(@, Listed(backups, listed),
                                                          op[p], oldContent[p],
                                                          backupPath[p])]
              /\ pc' = [pc EXCEPT ![p] = "done"]
              /\ res' = [res EXCEPT ![p] = VerifiedResult(FALSE, "true")]
         ELSE /\ medium' = medium
              /\ pc' = [pc EXCEPT ![p] = IF platform = "posix" THEN "threw" ELSE "done"]
              /\ res' = [res EXCEPT ![p] = IF platform = "posix" THEN NoRes
                                           ELSE VerifiedResult(FALSE, "undefined")]
    /\ UNCHANGED <<conf, backupDir, dirs, env, backups, now, nops,
                   op, oldContent, backupPath, hist>>

-----------------------------------------------------------------------------
(* One caller that awaits every call before it makes the next *)

Caller == "caller"

Next ==
    \/ \E n \in OpNames, s \in Scopes : CallGetRaw(Caller, n, s)
    \/ \E n \in OpNames, v \in OpValues, s \in Scopes, b, f, r \in BOOLEAN :
         CallSet(Caller, n, v, s, b, f, r)
    \/ \E n \in OpNames, s \in Scopes, b, f, r \in BOOLEAN :
         CallUnset(Caller, n, s, b, f, r)
    \/ Query(Caller)
    \/ ReadFile(Caller)
    \/ Export(Caller)
    \/ CreateBackup(Caller)
    \/ Write(Caller)
    \/ Verify(Caller)
    \/ Rollback(Caller)

Spec == Init /\ [][Next]_vars

-----------------------------------------------------------------------------
(* One caller that sets and unsets variables of media that start empty *)

\* the names and values of the calls: "MY-VAR" is not made of word characters
SeqNames == {"FOO", "MY-VAR"}

SeqValues == {<<"a">>, <<"b">>}

PersistentScopes == {"user", "system"}

\* no profile, no /etc/environment; registry keys without values
EmptyMedia ==
    [s \in Scopes |-> IF platform = "win" /\ s # "session" THEN KeyOf(EmptyKey)
                      ELSE NoFile]

SeqInit ==
    /\ platform \in {"posix", "win"}
    /\ hasRequire = FALSE
    /\ limit = MaxSeq
    /\ backupDir = Null
    /\ dirs = {}
    /\ env = [n \in Names |-> Undef]
    /\ medium = EmptyMedia
    /\ backups = {}
    /\ now = 0
    /\ nops = 0
    /\ pc = [p \in Procs |-> "idle"]
    /\ op = [p \in Procs |-> NoOp]
    /\ oldContent = [p \in Procs |-> NoSnapshot]
    /\ backupPath = [p \in Procs |-> NoPath]
    /\ res = [p \in Procs |-> NoRes]
    /\ hist = [p \in Procs |-> NoHist]

SeqNext ==
    \/ \E n \in SeqNames, v \in SeqValues, s \in PersistentScopes :
         CallSet(Caller, n, v, s, FALSE, TRUE, TRUE)
    \/ \E n \in SeqNames, s \in PersistentScopes :
         CallUnset(Caller, n, s, FALSE, TRUE, TRUE)
    \/ ReadFile(Caller)
    \/ Write(Caller)
    \/ Verify(Caller)

SeqSpec == SeqInit /\ [][SeqNext]_vars

-----------------------------------------------------------------------------
(* backup.mjs called directly: createBackup and purge *)

\* a day goes by
Tick ==
    /\ now < MaxTime
    /\ now' = now + 1
    /\ UNCHANGED <<conf, backupDir, dirs, env, medium, backups, nops,
                   pc, op, oldContent, backupPath, res, hist>>

\* createBackup(scope, name, value) up to its first await: the directory and
\* the timestamp of the name are taken at once
CallCreateBackup(p, scope, name, value) ==
    /\ EnterWith(p, [NoOp EXCEPT !.kind = "createBackup", !.name = name,
                                 !.scope = scope],
                 value, BackupFile(scope, name, now),
                 [NoHist EXCEPT !.time = now, !.dirarg = hist[p].dirarg])
    /\ pc' = [pc EXCEPT ![p] = "backup"]
    /\ res' = [res EXCEPT ![p] = NoRes]
    /\ UNCHANGED <<conf, backupDir, dirs, env, medium, backups, now>>

\* new Date().toISOString() of instant t, "YYYY-MM-DDTHH:MM:SS.mmmZ": the
\* instant, the separator of the date fields, the separator of the time
\* fields, and what follows the minutes
IsoText(t) == [t |-> t, dsep |-> "-", tsep |-> ":", tail |-> "SS.mmmZ"]

\* ts = toISOString().replace(/[:.]/g, "-"): "YYYY-MM-DDTHH-MM-SS-mmmZ"
Timestamp(t) == [IsoText(t) EXCEPT !.tsep = "-", !.tail = "SS-mmmZ"]

\* the timestamp in the name of a file
StampOf(file) == Timestamp(file.ts)

\* file.match(/(\d{4}-\d{2}-\d{2}T\d{2}-\d{2}-\d{2})/)[1]: the text up to the
\* seconds
MatchedStamp(stamp) == [stamp EXCEPT !.tail = "SS"]

\* match[1].replace(/-/g, ":").replace("T", "T").replace(/(\d{2})$/, ".$1Z"):
\* every "-" becomes ":", those of the date too, and ".SSZ" follows the
\* minutes: "YYYY:MM:DDTHH:MM:.SSZ"
DateText(stamp) ==
    [stamp EXCEPT !.dsep = IF @ = "-" THEN ":" ELSE @,
                  !.tsep = IF @ = "-" THEN ":" ELSE @,
                  !.tail = ".SSZ"]

InvalidDate == [valid |-> FALSE, time |-> 0]

\* new Date(text): a date-time text is "YYYY-MM-DDTHH:MM:SS" with an optional
\* fraction and "Z"; any other text gives an Invalid Date
NewDate(text) ==
    IF text.dsep = "-" /\ text.tsep = ":" /\ text.tail \in {"SS", "SSZ", "SS.mmmZ"}
    THEN [valid |-> TRUE, time |-> text.t]
    ELSE InvalidDate

\* fileDate
FileDate(file) == NewDate(DateText(MatchedStamp(StampOf(file))))

\* tooOld: !isNaN(fileDate) and (now - fileDate.getTime()) / 86400000 > maxAgeDays
TooOld(file, time, maxAgeDays) ==
    FileDate(file).valid /\ time - FileDate(file).time > maxAgeDays

\* a.localeCompare(b) < 0 for the names "BAR" and "FOO"
NameBefore(a, b) == a = "BAR" /\ b = "FOO"

\* b.localeCompare(a) < 0 for two file names of one scope: file a sorts before
\* file b.  The name of the variable comes before the timestamp in the file
\* name, and the timestamps have one width.
SortsBefore(a, b) ==
    \/ NameBefore(b.file.name, a.file.name)
    \/ a.file.name = b.file.name /\ a.file.ts > b.file.ts

\* one group for the files of every scope
OneGroup(files, scope) == files

\* const [scope] = file.split("-"); byScope[scope]
ByScope(files, scope) == {b \in files : b.file.scope = scope}

\* the index i of a file in its sorted byScope[scope]
IndexOf(files, b) ==
    Cardinality({a \in ByScope(files, b.file.scope) : SortsBefore(a, b)})

\* a purge that unlinks the one file at index maxPerScope of each scope
PurgeTargetsAtIndex(files, time, maxPerScope, maxAgeDays) ==
    {b \in files : \/ IndexOf(files, b) = maxPerScope
                   \/ TooOld(b.file, time, maxAgeDays)}

\* the files purge unlinks: i >= maxPerScope || tooOld
PurgeTargets(files, time, maxPerScope, maxAgeDays) ==
    {b \in files : \/ IndexOf(files, b) >= maxPerScope
                   \/ TooOld(b.file, time, maxAgeDays)}

\* the call before this one, as a purge with this policy sees it
PurgedBefore(p, maxPerScope, maxAgeDays) ==
    [same  |-> /\ pc[p] = "done"
               /\ op[p].kind = "purge"
               /\ op[p].maxPerScope = maxPerScope
               /\ op[p].maxAgeDays = maxAgeDays,
     clean |-> hist[p].read /\ hist[p].failed = {},
     count |-> res[p].count]

\* purge({maxPerScope, maxAgeDays}) up to its first await
CallPurge(p, maxPerScope, maxAgeDays) ==
    /\ EnterWith(p, [NoOp EXCEPT !.kind = "purge", !.maxPerScope = maxPerScope,
                                 !.maxAgeDays = maxAgeDays],
                 NoSnapshot, NoPath,
                 [NoHist EXCEPT !.prev = PurgedBefore(p, maxPerScope, maxAgeDays),
                                !.dirarg = hist[p].dirarg])
    /\ pc' = [pc EXCEPT ![p] = "readdir"]
    /\ res' = [res EXCEPT ![p] = NoRes]
    /\ UNCHANGED <<conf, backupDir, dirs, env, medium, backups, now>>

\* what purge returns: the number of files deleted
PurgeResult(deleted) == [NoRes EXCEPT !.ok = TRUE, !.note = "purge", !.count = deleted]

\* purge: readdir has ended.  When it failed, purge returns 0; otherwise
\* Date.now() is read and the files are unlinked one after the other, and an
\* unlink that fails is passed over.
PurgeDir(p) ==
    /\ pc[p] = "readdir"
    /\ \E read \in (IF GetBackupDir \in dirs THEN BOOLEAN ELSE {FALSE}) :
         IF read
         THEN LET files == Readdir(backups)
                  tried == PurgeTargets(files, now, op[p].maxPerScope,
                                        op[p].maxAgeDays)
              IN  \E failed \in SUBSET tried :
                    /\ backups' = backups \ (tried \ failed)
                    /\ res' = [res EXCEPT
                                 ![p] = PurgeResult(Cardinality(tried \ failed))]
                    /\ hist' = [hist EXCEPT ![p].files = files, ![p].tried = tried,
                                            ![p].failed = failed, ![p].time = now,
                                            ![p].read = TRUE]
         ELSE /\ backups' = backups
              /\ res' = [res EXCEPT ![p] = PurgeResult(0)]
              /\ hist' = hist
    /\ pc' = [pc EXCEPT ![p] = "done"]
    /\ UNCHANGED <<conf, backupDir, dirs, env, medium, now, nops,
                   op, oldContent, backupPath>>

\* the variables and policies of the calls
PurgeNames == {"BAR", "FOO"}

PerScopeChoices == {0, 1, 9999}

AgeChoices == {0, 9999}

\* the content of a snapshot: the text of a profile without a block
SomeContent == Snapshot(<<Text, Empty>>, EmptyKey)

PurgeInit ==
    /\ platform = "posix"
    /\ hasRequire = FALSE
    /\ limit = MaxPurgeOps
    /\ backupDir = Null
    /\ dirs = {}
    /\ env = [n \in Names |-> Undef]
    /\ medium = EmptyMedia
    /\ backups = {}
    /\ now = 0
    /\ nops = 0
    /\ pc = [p \in Procs |-> "idle"]
    /\ op = [p \in Procs |-> NoOp]
    /\ oldContent = [p \in Procs |-> NoSnapshot]
    /\ backupPath = [p \in Procs |-> NoPath]
    /\ res = [p \in Procs |-> NoRes]
    /\ hist = [p \in Procs |-> NoHist]

PurgeNext ==
    \/ Tick
    \/ \E s \in PersistentScopes, n \in PurgeNames :
         CallCreateBackup(Caller, s, n, SomeContent)
    \/ CreateBackup(Caller)
    \/ \E m \in PerScopeChoices, a \in AgeChoices : CallPurge(Caller, m, a)
    \/ PurgeDir(Caller)

PurgeSpec == PurgeInit /\ [][PurgeNext]_vars

-----------------------------------------------------------------------------
(* backup.mjs called directly: setBackupDir, createBackup, restore; and
   restoreFromBackup of the adapter *)

\* setBackupDir(dir): no await, it has returned when it is called
SetBackupDir(p, dir) ==
    /\ EnterWith(p, [NoOp EXCEPT !.kind = "setBackupDir", !.dir = dir],
                 NoSnapshot, NoPath, [NoHist EXCEPT !.dirarg = dir])
    /\ backupDir' = SetDir(dir)
    /\ pc' = [pc EXCEPT ![p] = "done"]
    /\ res' = [res EXCEPT ![p] = NoRes]
    /\ UNCHANGED <<conf, dirs, env, medium, backups, now>>

\* what restore and restoreFromBackup return
RestoreResult(ok) == [NoRes EXCEPT !.ok = ok, !.note = "restore"]

\* restore(id) up to its first await
CallRestore(p, id) ==
    /\ EnterWith(p, [NoOp EXCEPT !.kind = "restore", !.id = id],
                 NoSnapshot, PathOfId(id), [NoHist EXCEPT !.dirarg = hist[p].dirarg])
    /\ pc' = [pc EXCEPT ![p] = "rread"]
    /\ res' = [res EXCEPT ![p] = NoRes]
    /\ UNCHANGED <<conf, backupDir, dirs, env, medium, backups, now>>

\* an id that begins with a scope and no variable name
IdMatchesAnyName(id) == id.scope \in Scopes

\* id.match(/^(session|user|system)-(\w+)-.+\.bak$/) is not null: \w+ needs
\* one character of the name
IdMatches(id) == id.scope \in Scopes /\ id.name # NoName

\* restore: readFile of the backup has ended.  A read that fails and an id
\* that does not match return false; otherwise the adapter is imported and
\* its restoreFromBackup is called with the scope and name of the id.
RestoreRead(p) ==
    /\ pc[p] = "rread"
    /\ \E read \in (IF \E b \in backups : b.file = backupPath[p]
                     THEN BOOLEAN ELSE {FALSE}) :
         IF read /\ IdMatches(op[p].id)
         THEN /\ oldContent' = [oldContent EXCEPT
                                  ![p] = BackupContent(backups, backupPath[p])]
              /\ op' = [op EXCEPT ![p].scope = op[p].id.scope,
                                  ![p].name = op[p].id.name]
              /\ pc' = [pc EXCEPT ![p] = "rfb"]
              /\ res' = res
              /\ hist' = [hist EXCEPT ![p].read = TRUE]
         ELSE /\ UNCHANGED <<oldContent, op>>
              /\ pc' = [pc EXCEPT ![p] = "done"]
              /\ res' = [res EXCEPT ![p] = RestoreResult(FALSE)]
              /\ hist' = [hist EXCEPT ![p].read = read]
    /\ UNCHANGED <<conf, backupDir, dirs, env, medium, backups, now, nops,
                   backupPath>>

\* adapter.restoreFromBackup(data, {scope, name}) called by itself
CallRestoreFromBackup(p, data, scope) ==
    /\ EnterWith(p, [NoOp EXCEPT !.kind = "restoreFromBackup", !.scope = scope,
                                 !.name = "FOO"],
                 data, NoPath, [NoHist EXCEPT !.dirarg = hist[p].dirarg])
    /\ pc' = [pc EXCEPT ![p] = "rfb"]
    /\ res' = [res EXCEPT ![p] = NoRes]
    /\ UNCHANGED <<conf, backupDir, dirs, env, medium, backups, now>>

\* restoreFromBackup up to its write: a scope that is not user or system
\* returns false; win.mjs stages the data in a file of the temporary directory
RestoreFromBackup(p) ==
    /\ pc[p] = "rfb"
    /\ IF op[p].scope \notin PersistentScopes
       THEN /\ pc' = [pc EXCEPT ![p] = "done"]
            /\ res' = [res EXCEPT ![p] = RestoreResult(FALSE)]
       ELSE /\ pc' = [pc EXCEPT ![p] = IF platform = "win" THEN "stage" ELSE "rwrite"]
            /\ res' = res
    /\ UNCHANGED <<conf, backupDir, dirs, env, medium, backups, now, nops,
                   op, oldContent, backupPath, hist>>

\* where a failure of the staging write takes the caller: win.mjs awaits
\* fs.writeFile(tmp, data) outside its try block, and restore catches what
\* restoreFromBackup throws
AfterStageFailure(o) == IF o.kind = "restore" THEN "done" ELSE "threw"

\* win.mjs restoreFromBackup: fs.writeFile(tmp, data) has ended
Stage(p) ==
    /\ pc[p] = "stage"
    /\ \E staged \in BOOLEAN :
         IF staged
         THEN /\ pc' = [pc EXCEPT ![p] = "rwrite"]
              /\ res' = res
              /\ hist' = hist
         ELSE /\ pc' = [pc EXCEPT ![p] = AfterStageFailure(op[p])]
              /\ res' = [res EXCEPT ![p] = IF op[p].kind = "restore"
                                           THEN RestoreResult(FALSE) ELSE NoRes]
              /\ hist' = [hist EXCEPT ![p].wfail = TRUE]
    /\ UNCHANGED <<conf, backupDir, dirs, env, medium, backups, now, nops,
                   op, oldContent, backupPath>>

\* data that reg import accepts: the export of a key, and not any other text
WinImportable(data) == data.lines = <<>>

\* whether the write of restoreFromBackup can succeed, can fail
RestoreOutcomes(data) ==
    IF platform = "win" /\ ~WinImportable(data) THEN {FALSE} ELSE BOOLEAN

\* the medium after restoreFromBackup: fs.writeFile(target, data), or
\* reg import of the staged file
Restored(m, data) ==
    IF platform = "posix" THEN FileOf(data.lines)
    ELSE KeyOf(RegImport(m.reg, data.reg))

\* restoreFromBackup: fs.writeFile(target, data) or reg import has ended
RestoreWrite(p) ==
    /\ pc[p] = "rwrite"
    /\ \E written \in RestoreOutcomes(oldContent[p]) :
         IF written
         THEN /\ medium' = [medium EXCEPT ![op[p].scope] = Restored(@, oldContent[p])]
              /\ res' = [res EXCEPT ![p] = RestoreResult(TRUE)]
              /\ hist' = [hist EXCEPT ![p].wrote = TRUE,
                                      ![p].pre = medium[op[p].scope]]
         ELSE /\ medium' = medium
              /\ res' = [res EXCEPT ![p] = RestoreResult(FALSE)]
              /\ hist' = [hist EXCEPT ![p].wfail = TRUE]
    /\ pc' = [pc EXCEPT ![p] = "done"]
    /\ UNCHANGED <<conf, backupDir, dirs, env, backups, now, nops,
                   op, oldContent, backupPath>>

\* the directories setBackupDir is called with: "/tmp/x", "rel", ""
DirChoices ==
    { [abs |-> TRUE, segs |-> <<"tmp", "x">>],
      [abs |-> FALSE, segs |-> <<"rel">>],
      NoDir }

\* the names createBackup is called with: a variable name, no name
StoreNames == {"FOO", NoName}

\* the contents createBackup and restoreFromBackup are called with: two texts
\* of a profile; the export of a key and the text "dummy"
StoreContents ==
    IF platform = "posix"
    THEN {Snapshot(EmptyText, EmptyKey), Snapshot(<<Text, Empty>>, EmptyKey)}
    ELSE {Snapshot(<<>>, [n \in Names |-> IF n = "BAR" THEN <<"b">> ELSE Undef]),
          Snapshot(<<Text>>, EmptyKey)}

\* the ids restore is called with: the names of the files of the directory,
\* and the name of none
StoreIds == {IdOf(b.file) : b \in backups} \cup {Id("user", "FOO", MaxTime + 1)}

\* media that hold FOO and BAR
StoreMedia ==
    [s \in Scopes |->
        IF s = "session" THEN NoFile
        ELSE IF platform = "win"
        THEN KeyOf([n \in Names |-> IF n = "BAR" THEN <<"b">>
                                    ELSE IF n = "FOO" THEN <<"a">> ELSE Undef])
        ELSE IF s = "user"
        THEN FileOf(<<Text, Begin, ExportLine("BAR", <<"b">>),
                      ExportLine("FOO", <<"a">>), End, Empty>>)
        ELSE FileOf(<<AssignLine("BAR", <<"b">>), AssignLine("FOO", <<"a">>), Empty>>)]

\* the host before the first of calls calls of backup.mjs
StoreStart(calls) ==
    /\ platform \in {"posix", "win"}
    /\ hasRequire = FALSE
    /\ limit = calls
    /\ backupDir = Null
    /\ dirs = {}
    /\ env = [n \in Names |-> Undef]
    /\ medium = StoreMedia
    /\ backups = {}
    /\ now = 0
    /\ nops = 0
    /\ pc = [p \in Procs |-> "idle"]
    /\ op = [p \in Procs |-> NoOp]
    /\ oldContent = [p \in Procs |-> NoSnapshot]
    /\ backupPath = [p \in Procs |-> NoPath]
    /\ res = [p \in Procs |-> NoRes]
    /\ hist = [p \in Procs |-> NoHist]

BackupInit == StoreStart(MaxBackupOps)

\* one caller that sets the backup directory and creates backups
BackupNext ==
    \/ Tick
    \/ \E d \in DirChoices : SetBackupDir(Caller, d)
    \/ \E s \in PersistentScopes, c \in StoreContents :
         CallCreateBackup(Caller, s, "FOO", c)
    \/ CreateBackup(Caller)

BackupSpec == BackupInit /\ [][BackupNext]_vars

StoreInit == StoreStart(MaxStoreOps)

\* one caller that creates backups and restores them
StoreNext ==
    \/ \E s \in Scopes, n \in StoreNames, c \in StoreContents :
         CallCreateBackup(Caller, s, n, c)
    \/ CreateBackup(Caller)
    \/ \E id \in StoreIds : CallRestore(Caller, id)
    \/ RestoreRead(Caller)
    \/ \E c \in StoreContents, s \in Scopes : CallRestoreFromBackup(Caller, c, s)
    \/ RestoreFromBackup(Caller)
    \/ Stage(Caller)
    \/ RestoreWrite(Caller)

StoreSpec == StoreInit /\ [][StoreNext]_vars

-----------------------------------------------------------------------------
(* getExpanded.  A value is a sequence of tokens: a token is one of the
   characters below, or a run of word characters that no other token of the
   model continues into a name of Names. *)

\* the characters that are not word characters (\w is [A-Za-z0-9_])
Punct == {"$", "{", "}", "%", "/", " ", ":", ";", "-"}

\* \w, and [A-Z0-9_] under the i flag
IsWord(t) == t \notin Punct

\* the length of the longest run of word tokens of val that starts at i:
\* what the greedy \w+ takes there
RECURSIVE WordRun(_, _)
WordRun(val, i) ==
    IF i <= Len(val) /\ IsWord(val[i]) THEN 1 + WordRun(val, i + 1) ELSE 0

\* the name a run of word tokens spells: two tokens or more spell the name of
\* no variable of the model
SpelledName(run) == IF Len(run) = 1 THEN run[1] ELSE "other"

\* process.env[v]
EnvAt(e, v) == IF v \in DOMAIN e THEN e[v] ELSE Undef

\* process.env[v] || ""
EnvOrEmpty(e, v) == IF EnvAt(e, v) = Undef THEN <<>> ELSE EnvAt(e, v)

\* the callback of replace in posix.mjs: m for the name itself, else the
\* value of the process environment
PosixReplacement(m, v, name, e) == IF v = name THEN m ELSE EnvOrEmpty(e, v)

\* the callback of replace in win.mjs: v is put in upper case and compared
\* with name as getExpanded was called with it
WinReplacement(m, v, name, e) ==
    IF CASE_NORMALIZE(v) = name THEN m ELSE EnvOrEmpty(e, CASE_NORMALIZE(v))

\* val.replace(/\$(\w+)|\${(\w+)}/g, ...) from index i on: the matches are
\* taken from left to right, and what the callback gives is not scanned
RECURSIVE PosixExpandFrom(_, _, _, _)
PosixExpandFrom(val, i, name, e) ==
    IF i > Len(val) THEN <<>>
    ELSE LET n1 == WordRun(val, i + 1)
             n2 == WordRun(val, i + 2)
         IN  IF val[i] = "$" /\ n1 > 0
             THEN PosixReplacement(SubSeq(val, i, i + n1),
                                   SpelledName(SubSeq(val, i + 1, i + n1)), name, e)
                  \o PosixExpandFrom(val, i + n1 + 1, name, e)
             ELSE IF /\ val[i] = "$"
                     /\ i + 1 <= Len(val) /\ val[i + 1] = "{"
                     /\ n2 > 0
                     /\ i + n2 + 2 <= Len(val) /\ val[i + n2 + 2] = "}"
             THEN PosixReplacement(SubSeq(val, i, i + n2 + 2),
                                   SpelledName(SubSeq(val, i + 2, i + n2 + 1)), name, e)
                  \o PosixExpandFrom(val, i + n2 + 3, name, e)
             ELSE <<val[i]>> \o PosixExpandFrom(val, i + 1, name, e)

\* val.replace(/%([A-Z0-9_]+)%/gi, ...) from index i on
RECURSIVE WinExpandFrom(_, _, _, _)
WinExpandFrom(val, i, name, e) ==
    IF i > Len(val) THEN <<>>
    ELSE LET n1 == WordRun(val, i + 1)
         IN  IF /\ val[i] = "%"
                /\ n1 > 0
                /\ i + n1 + 1 <= Len(val) /\ val[i + n1 + 1] = "%"
             THEN WinReplacement(SubSeq(val, i, i + n1 + 1),
                                 SpelledName(SubSeq(val, i + 1, i + n1)), name, e)
                  \o WinExpandFrom(val, i + n1 + 2, name, e)
             ELSE <<val[i]>> \o WinExpandFrom(val, i + 1, name, e)

\* an expansion that scans what it has substituted once more
ExpandTwice(raw, name, e) ==
    IF platform = "win"
    THEN WinExpandFrom(WinExpandFrom(raw, 1, name, e), 1, name, e)
    ELSE PosixExpandFrom(PosixExpandFrom(raw, 1, name, e), 1, name, e)

\* expand(raw)
Expand(raw, name, e) ==
    IF platform = "win" THEN WinExpandFrom(raw, 1, name, e)
    ELSE PosixExpandFrom(raw, 1, name, e)

\* if (!raw) return raw; return expand(raw)
Expanded(raw, name, e) ==
    IF raw = Undef \/ raw = <<>> THEN raw ELSE Expand(raw, name, e)

\* getExpanded(name, {scope}) up to the await of getRaw: at scope session
\* getRaw has read process.env, posix.mjs getRaw has thrown at the other scopes
CallGetExpanded(p, name, scope) ==
    LET raw == IF scope = "session" \/ platform = "posix"
               THEN GetRaw(name, scope, FALSE) ELSE Undef
    IN  /\ EnterWith(p, [NoOp EXCEPT !.kind = "getExpanded", !.name = name,
                                     !.scope = scope],
                     NoSnapshot, NoPath, [NoHist EXCEPT !.raw = raw])
        /\ pc' = [pc EXCEPT ![p] = IF raw = Threw THEN "threw" ELSE "expand"]
        /\ res' = [res EXCEPT ![p] = NoRes]
        /\ UNCHANGED <<conf, backupDir, dirs, env, medium, backups, now>>

\* getExpanded: getRaw has ended, the value is expanded and returned
GetExpanded(p) ==
    /\ pc[p] = "expand"
    /\ \E queryFails \in (IF op[p].scope = "session" THEN {FALSE} ELSE QueryOutcomes) :
         LET raw == IF op[p].scope = "session" THEN hist[p].raw
                    ELSE GetRaw(op[p].name, op[p].scope, queryFails)
         IN  /\ hist' = [hist EXCEPT ![p].raw = raw]
             /\ res' = [res EXCEPT ![p] = ReadResult(Expanded(raw, op[p].name, env))]
    /\ pc' = [pc EXCEPT ![p] = "done"]
    /\ UNCHANGED <<conf, backupDir, dirs, env, medium, backups, now, nops,
                   op, oldContent, backupPath>>

\* the names getExpanded is called with
ExpandNames == {"FOO", "foo", "BAR"}

\* the reference to name n in the syntax of the platform, and in the second
\* syntax of POSIX
Ref(n) == IF platform = "win" THEN <<"%", n, "%">> ELSE <<"$", n>>

BraceRef(n) == IF platform = "win" THEN <<"%", n, "%">> ELSE <<"$", "{", n, "}">>

\* the values of the variables: texts without a reference, with one, with two,
\* with a reference that a word character follows, with half a reference
ExpandValues ==
    { <<"a">>, <<>>, <<"a", "/", "b">>,
      Ref("BAR") \o <<"/", "a">>,
      <<"x", "/">> \o BraceRef("FOO") \o <<"/", "a">>,
      Ref("foo"),
      Ref("FOO") \o <<"/">> \o Ref("BAR"),
      IF platform = "win" THEN <<"%", "BAR", "a", "%">> ELSE <<"$", "BAR", "a">>,
      IF platform = "win" THEN <<"%", "BAR">> ELSE <<"$", "{", "BAR">> }

\* process.env: every variable has one of the values or is not set
ExpandEnvs ==
    {[n \in Names |-> IF n = "FOO" THEN f ELSE IF n = "BAR" THEN b ELSE Undef] :
        f \in ExpandValues \cup {Undef}, b \in ExpandValues \cup {Undef}}

\* the registry keys: FOO and BAR hold values that differ from those of the
\* process environment
ExpandKeys ==
    {KeyOf([n \in Names |-> IF n = "FOO" THEN f
                            ELSE IF n = "BAR" THEN Ref("FOO") \o <<"/", "b">>
                            ELSE Undef]) :
        f \in {Undef, Ref("BAR") \o <<"/", "a">>, Ref("foo") \o <<";", "x">>}}

ExpandMedia ==
    IF platform = "win"
    THEN {[s \in Scopes |-> IF s = "session" THEN NoFile ELSE k] : k \in ExpandKeys}
    ELSE {EmptyMedia}

ExpandInit ==
    /\ platform \in {"posix", "win"}
    /\ hasRequire = FALSE
    /\ limit = MaxExpandOps
    /\ backupDir = Null
    /\ dirs = {}
    /\ env \in ExpandEnvs
    /\ medium \in ExpandMedia
    /\ backups = {}
    /\ now = 0
    /\ nops = 0
    /\ pc = [p \in Procs |-> "idle"]
    /\ op = [p \in Procs |-> NoOp]
    /\ oldContent = [p \in Procs |-> NoSnapshot]
    /\ backupPath = [p \in Procs |-> NoPath]
    /\ res = [p \in Procs |-> NoRes]
    /\ hist = [p \in Procs |-> NoHist]

\* one caller that reads expanded values
ExpandNext ==
    \/ \E n \in ExpandNames, s \in Scopes : CallGetExpanded(Caller, n, s)
    \/ GetExpanded(Caller)

ExpandSpec == ExpandInit /\ [][ExpandNext]_vars

-----------------------------------------------------------------------------
(* win.mjs: one caller that names one variable in upper and in lower case *)

\* the values set: a text, and a reference to the variable itself
CaseValues == {<<"a">>, <<"%", "foo", "%", ";", "x">>}

CaseInit ==
    /\ platform = "win"
    /\ hasRequire = FALSE
    /\ limit = MaxCaseOps
    /\ backupDir = Null
    /\ dirs = {}
    /\ env \in {[n \in Names |-> Undef],
                [n \in Names |-> IF n = "FOO" THEN <<"b">> ELSE Undef]}
    /\ medium = EmptyMedia
    /\ backups = {}
    /\ now = 0
    /\ nops = 0
    /\ pc = [p \in Procs |-> "idle"]
    /\ op = [p \in Procs |-> NoOp]
    /\ oldContent = [p \in Procs |-> NoSnapshot]
    /\ backupPath = [p \in Procs |-> NoPath]
    /\ res = [p \in Procs |-> NoRes]
    /\ hist = [p \in Procs |-> NoHist]

CaseNext ==
    \/ \E n \in OpNames, v \in CaseValues, s \in Scopes :
         CallSet(Caller, n, v, s, FALSE, TRUE, TRUE)
    \/ \E n \in OpNames, s \in Scopes : CallUnset(Caller, n, s, FALSE, TRUE, TRUE)
    \/ \E n \in OpNames, s \in Scopes : CallGetRaw(Caller, n, s)
    \/ \E n \in OpNames, s \in Scopes : CallGetExpanded(Caller, n, s)
    \/ Query(Caller)
    \/ GetExpanded(Caller)
    \/ Write(Caller)
    \/ Verify(Caller)

CaseSpec == CaseInit /\ [][CaseNext]_vars

-----------------------------------------------------------------------------
(* backup.mjs: the backup directory as state of the process *)

\* list({scope}) up to its first await
CallList(p, scope) ==
    /\ EnterWith(p, [NoOp EXCEPT !.kind = "list", !.scope = scope],
                 NoSnapshot, NoPath, [NoHist EXCEPT !.dirarg = hist[p].dirarg])
    /\ pc' = [pc EXCEPT ![p] = "list"]
    /\ res' = [res EXCEPT ![p] = NoRes]
    /\ UNCHANGED <<conf, backupDir, dirs, env, medium, backups, now>>

\* what list returns: the names of the files, here their number
ListResult(files) ==
    [NoRes EXCEPT !.ok = TRUE, !.note = "list", !.count = Cardinality(files)]

\* list: readdir has ended; a readdir that fails gives []
ListDir(p) ==
    /\ pc[p] = "list"
    /\ \E read \in (IF GetBackupDir \in dirs THEN BOOLEAN ELSE {FALSE}) :
         LET files == IF read THEN List(backups, op[p].scope) ELSE {}
         IN  /\ res' = [res EXCEPT ![p] = ListResult(files)]
             /\ hist' = [hist EXCEPT ![p].files = files, ![p].read = read]
    /\ pc' = [pc EXCEPT ![p] = "done"]
    /\ UNCHANGED <<conf, backupDir, dirs, env, medium, backups, now, nops,
                   op, oldContent, backupPath>>

\* the directories setBackupDir is called with: "/tmp/x", "/tmp/y", "rel"
DirArgs ==
    { [abs |-> TRUE, segs |-> <<"tmp", "x">>],
      [abs |-> TRUE, segs |-> <<"tmp", "y">>],
      [abs |-> FALSE, segs |-> <<"rel">>] }

\* the ids restore is called with: the names of the files of every directory
DirIds == {IdOf(b.file) : b \in backups}

DirInit ==
    /\ platform = "posix"
    /\ hasRequire \in BOOLEAN
    /\ limit = MaxDirOps
    /\ backupDir = Null
    /\ dirs = {}
    /\ env = [n \in Names |-> Undef]
    /\ medium = StoreMedia
    /\ backups = {}
    /\ now = 0
    /\ nops = 0
    /\ pc = [p \in Procs |-> "idle"]
    /\ op = [p \in Procs |-> NoOp]
    /\ oldContent = [p \in Procs |-> NoSnapshot]
    /\ backupPath = [p \in Procs |-> NoPath]
    /\ res = [p \in Procs |-> NoRes]
    /\ hist = [p \in Procs |-> NoHist]

\* one caller that sets the backup directory between the calls of the backup
\* store and of the adapter
DirNext ==
    \/ \E d \in DirArgs : SetBackupDir(Caller, d)
    \/ CallCreateBackup(Caller, "user", "FOO", SomeContent)
    \/ CallSet(Caller, "FOO", <<"b">>, "user", TRUE, TRUE, TRUE)
    \/ ReadFile(Caller)
    \/ CreateBackup(Caller)
    \/ Write(Caller)
    \/ Verify(Caller)
    \/ CallList(Caller, "user")
    \/ ListDir(Caller)
    \/ \E id \in DirIds : CallRestore(Caller, id)
    \/ RestoreRead(Caller)
    \/ RestoreFromBackup(Caller)
    \/ RestoreWrite(Caller)
    \/ CallPurge(Caller, 0, 9999)
    \/ PurgeDir(Caller)

DirSpec == DirInit /\ [][DirNext]_vars

-----------------------------------------------------------------------------
(* posix.mjs: two callers that set variables of one medium at the same time *)

\* the names the two callers set
RaceNames == {"FOO", "BAR"}

RaceInit ==
    /\ platform = "posix"
    /\ hasRequire = FALSE
    /\ limit = MaxRaceOps
    /\ backupDir = Null
    /\ dirs = {}
    /\ env = [n \in Names |-> Undef]
    /\ medium \in {EmptyMedia, StoreMedia}
    /\ backups = {}
    /\ now = 0
    /\ nops = 0
    /\ pc = [p \in Procs |-> "idle"]
    /\ op = [p \in Procs |-> NoOp]
    /\ oldContent = [p \in Procs |-> NoSnapshot]
    /\ backupPath = [p \in Procs |-> NoPath]
    /\ res = [p \in Procs |-> NoRes]
    /\ hist = [p \in Procs |-> NoHist]

\* the steps of the calls of the two callers interleave at their awaits
RaceNext ==
    \E p \in Procs :
        \/ \E n \in RaceNames, s \in PersistentScopes, b \in BOOLEAN :
             CallSet(p, n, <<"b">>, s, b, TRUE, TRUE)
        \/ ReadFile(p)
        \/ CreateBackup(p)
        \/ Write(p)
        \/ Verify(p)

RaceSpec == RaceInit /\ [][RaceNext]_vars

-----------------------------------------------------------------------------
(* path-utils.mjs: split, join, unique.  A segment is a text, a sequence of
   tokens. *)

\* the index of the first delim of value at or after i, 0 when there is none
RECURSIVE DelimIndex(_, _, _)
DelimIndex(value, delim, i) ==
    IF i > Len(value) THEN 0
    ELSE IF value[i] = delim THEN i
    ELSE DelimIndex(value, delim, i + 1)

\* value.split(delim) for a delim of one character
RECURSIVE SplitText(_, _)
SplitText(value, delim) ==
    LET i == DelimIndex(value, delim, 1)
    IN  IF i = 0 THEN <<value>>
        ELSE <<SubSeq(value, 1, i - 1)>>
             \o SplitText(SubSeq(value, i + 1, Len(value)), delim)

\* s.trim()
Trim(s) == TrimEnd(TrimStart(s))

\* a split that leaves the segments as they are
SplitUntrimmed(value, delim) ==
    IF value # <<>> THEN SplitText(value, delim) ELSE <<>>

\* split(value, delim): value ? value.split(delim).map((s) => s.trim()) : []
Split(value, delim) ==
    IF value # <<>>
    THEN [i \in 1..Len(SplitText(value, delim)) |-> Trim(SplitText(value, delim)[i])]
    ELSE <<>>

\* segments.join(delim)
RECURSIVE JoinTexts(_, _)
JoinTexts(segments, delim) ==
    IF segments = <<>> THEN <<>>
    ELSE IF Len(segments) = 1 THEN segments[1]
    ELSE segments[1] \o <<delim>> \o JoinTexts(Tail(segments), delim)

\* Boolean(s): the empty text is the one falsy segment
Truthy(s) == s # <<>>

\* join(segments, delim): segments.filter(Boolean).join(delim)
JoinSegments(segments, delim) == JoinTexts(SelectSeq(segments, Truthy), delim)

\* c.toUpperCase() for the tokens of the model
UpperToken(c) ==
    IF c = "a" THEN "A" ELSE IF c = "b" THEN "B" ELSE CASE_NORMALIZE(c)

\* s.toUpperCase()
ToUpperCase(s) == [i \in 1..Len(s) |-> UpperToken(s[i])]

\* const key = caseInsensitive ? s.toUpperCase() : s
KeyOfSegment(s, caseInsensitive) == IF caseInsensitive THEN ToUpperCase(s) ELSE s

\* segments.filter(...) from index i on, with the keys seen so far
RECURSIVE UniqueFrom(_, _, _, _)
UniqueFrom(segments, i, seen, caseInsensitive) ==
    IF i > Len(segments) THEN <<>>
    ELSE LET key == KeyOfSegment(segments[i], caseInsensitive)
         IN  IF key \in seen
             THEN UniqueFrom(segments, i + 1, seen, caseInsensitive)
             ELSE <<segments[i]>>
                  \o UniqueFrom(segments, i + 1, seen \cup {key}, caseInsensitive)

\* the segments of s at the indexes of ix, in their order
RECURSIVE SegmentsAt(_, _)
SegmentsAt(s, ix) ==
    IF ix = {} THEN <<>>
    ELSE LET i == CHOOSE i \in ix : \A j \in ix : i <= j
         IN  <<s[i]>> \o SegmentsAt(s, ix \ {i})

\* a unique that keeps the last segment of each key
UniqueLast(segments, caseInsensitive) ==
    SegmentsAt(segments,
               {i \in 1..Len(segments) :
                    \A j \in (i + 1)..Len(segments) :
                        KeyOfSegment(segments[j], caseInsensitive)
                            # KeyOfSegment(segments[i], caseInsensitive)})

\* unique(segments, caseInsensitive)
Unique(segments, caseInsensitive) == UniqueFrom(segments, 1, {}, caseInsensitive)

\* what split and unique return
SegmentsResult(segments) ==
    [NoRes EXCEPT !.ok = TRUE, !.note = "segments", !.segments = segments]

\* join(segments, delim): it has returned when it is called
CallJoin(p, segments, delim) ==
    /\ EnterWith(p, [NoOp EXCEPT !.kind = "join", !.segments = segments,
                                 !.delim = delim],
                 NoSnapshot, NoPath, NoHist)
    /\ pc' = [pc EXCEPT ![p] = "done"]
    /\ res' = [res EXCEPT ![p] = ReadResult(JoinSegments(segments, delim))]
    /\ UNCHANGED <<conf, backupDir, dirs, env, medium, backups, now>>

\* split(value, delim); joined says that value is what join has just returned
CallSplit(p, value, delim, joined) ==
    /\ EnterWith(p, [NoOp EXCEPT !.kind = "split", !.value = value,
                                 !.delim = delim,
                                 !.segments = IF joined THEN op[p].segments ELSE <<>>],
                 NoSnapshot, NoPath, [NoHist EXCEPT !.joined = joined])
    /\ pc' = [pc EXCEPT ![p] = "done"]
    /\ res' = [res EXCEPT ![p] = SegmentsResult(Split(value, delim))]
    /\ UNCHANGED <<conf, backupDir, dirs, env, medium, backups, now>>

\* split(join(segments, delim), delim): the second of the two calls
CallSplitJoined(p) ==
    /\ pc[p] = "done"
    /\ op[p].kind = "join"
    /\ CallSplit(p, res[p].value, op[p].delim, TRUE)

\* unique(segments, caseInsensitive)
CallUnique(p, segments, caseInsensitive) ==
    /\ EnterWith(p, [NoOp EXCEPT !.kind = "unique", !.segments = segments,
                                 !.caseInsensitive = caseInsensitive],
                 NoSnapshot, NoPath, NoHist)
    /\ pc' = [pc EXCEPT ![p] = "done"]
    /\ res' = [res EXCEPT ![p] = SegmentsResult(Unique(segments, caseInsensitive))]
    /\ UNCHANGED <<conf, backupDir, dirs, env, medium, backups, now>>

\* the sequences of at most n segments taken from texts
SegmentSeqs(texts, n) == UNION {[1..k -> texts] : k \in 0..n}

\* the segments join is called with: plain, with a blank inside, with a
\* leading blank, of blanks only, empty, with the delimiter
JoinTextChoices ==
    {<<"a">>, <<"a", " ", "b">>, <<" ", "a">>, <<" ">>, <<>>, <<"a", ":", "b">>}

\* the segments unique is called with: two that differ in letter case only
UniqueTextChoices == {<<"a">>, <<"A">>, <<"b">>}

\* the texts split is called with
SplitTextChoices == {<<>>, <<"a", ":", " ", "b", ":">>, <<":">>}

PathInit ==
    /\ platform \in {"posix", "win"}
    /\ hasRequire = FALSE
    /\ limit = MaxPathOps
    /\ backupDir = Null
    /\ dirs = {}
    /\ env = [n \in Names |-> Undef]
    /\ medium = EmptyMedia
    /\ backups = {}
    /\ now = 0
    /\ nops = 0
    /\ pc = [p \in Procs |-> "idle"]
    /\ op = [p \in Procs |-> NoOp]
    /\ oldContent = [p \in Procs |-> NoSnapshot]
    /\ backupPath = [p \in Procs |-> NoPath]
    /\ res = [p \in Procs |-> NoRes]
    /\ hist = [p \in Procs |-> NoHist]

\* envManager.delim
DefaultDelim == IF platform = "win" THEN ";" ELSE ":"

\* one caller of envManager._pathUtils
PathNext ==
    \/ \E s \in SegmentSeqs(JoinTextChoices, MaxSegments) :
         CallJoin(Caller, s, DefaultDelim)
    \/ CallSplitJoined(Caller)
    \/ \E v \in SplitTextChoices : CallSplit(Caller, v, ":", FALSE)
    \/ \E s \in SegmentSeqs(UniqueTextChoices, MaxSegments), c \in BOOLEAN :
         CallUnique(Caller, s, c)

PathSpec == PathInit /\ [][PathNext]_vars

-----------------------------------------------------------------------------
(* The path helpers of the adapters: prepend, append, remove, sort, unique *)

PathOps == {"prepend", "append", "remove", "sort", "unique"}

\* the UTF-16 code unit of a character of the model
CodeUnit(c) ==
    CASE c = " " -> 32
      [] c = "/" -> 47
      [] c = ":" -> 58
      [] c = ";" -> 59
      [] c = "A" -> 65
      [] c = "B" -> 66
      [] c = "a" -> 97
      [] c = "b" -> 98
      [] OTHER -> 120

\* a < b as segments.sort() compares two strings: by their code units
RECURSIVE TextBefore(_, _)
TextBefore(a, b) ==
    IF b = <<>> THEN FALSE
    ELSE IF a = <<>> THEN TRUE
    ELSE IF CodeUnit(Head(a)) # CodeUnit(Head(b))
    THEN CodeUnit(Head(a)) < CodeUnit(Head(b))
    ELSE TextBefore(Tail(a), Tail(b))

\* segments.sort(): the place of segment i is after the smaller segments and
\* after the equal segments before it
SortSegments(segments) ==
    LET place(i) == Cardinality({j \in 1..Len(segments) :
                                    \/ TextBefore(segments[j], segments[i])
                                    \/ j < i /\ segments[j] = segments[i]}) + 1
    IN  [k \in 1..Len(segments) |->
            segments[CHOOSE i \in 1..Len(segments) : place(i) = k]]

\* segments.filter((s) => !values.includes(s))
RemoveValues(segments, values) ==
    SelectSeq(segments, LAMBDA x : \A i \in 1..Len(values) : values[i] # x)

\* pathUtils.unique(segments, false) in posix.mjs, (segments, true) in win.mjs
AdapterUnique(segments) == Unique(segments, platform = "win")

\* a helper that puts the values of append before the segments
NewSegmentsValuesFirst(o, current) ==
    LET segments == Split(current, o.delim)
    IN  IF o.kind \in {"prepend", "append"}
        THEN IF o.unique THEN AdapterUnique(o.segments \o segments)
             ELSE o.segments \o segments
        ELSE segments

\* the segments a helper joins and sets, from the current value
NewSegments(o, current) ==
    LET segments == Split(current, o.delim)
    IN  CASE o.kind = "prepend" ->
               IF o.unique THEN AdapterUnique(o.segments \o segments)
               ELSE o.segments \o segments
          [] o.kind = "append" ->
               IF o.unique THEN AdapterUnique(segments \o o.segments)
               ELSE segments \o o.segments
          [] o.kind = "remove" -> RemoveValues(segments, o.segments)
          [] o.kind = "sort" -> SortSegments(segments)
          [] OTHER -> AdapterUnique(segments)

\* envManager.path[kind]({name, scope, values, unique, delim}) up to the await
\* of getRaw; validate is false.  dryRun is the flag of the CLI that made the
\* call.
CallPath(p, kind, name, scope, values, unique, dryRun) ==
    LET raw == IF scope = "session" \/ platform = "posix"
               THEN GetRaw(name, scope, FALSE) ELSE Undef
    IN  /\ EnterWith(p, [NoOp EXCEPT !.kind = kind, !.name = name, !.scope = scope,
                                     !.segments = values, !.unique = unique,
                                     !.delim = IF platform = "win" THEN ";" ELSE ":",
                                     !.path = kind],
                     NoSnapshot, NoPath,
                     [NoHist EXCEPT !.raw = raw, !.dryRun = dryRun,
                                    !.dirarg = hist[p].dirarg])
        /\ pc' = [pc EXCEPT ![p] = IF raw = Threw THEN "threw" ELSE "pget"]
        /\ res' = [res EXCEPT ![p] = NoRes]
        /\ UNCHANGED <<conf, backupDir, dirs, env, medium, backups, now>>

\* (await getRaw(name, { scope })) || ""
OrEmpty(raw) == IF raw = Undef THEN <<>> ELSE raw

\* the set a helper ends with: set(name, join(segments, delim), { scope })
PathSet(o, raw) ==
    [o EXCEPT !.kind = "set", !.name = AdapterName(o.name),
              !.value = JoinSegments(NewSegments(o, OrEmpty(raw)), o.delim),
              !.backup = TRUE, !.verify = TRUE, !.rollbackOnFail = TRUE]

\* a helper: getRaw has ended, the new value is computed and set is called,
\* up to the first await of set
PathGet(p) ==
    /\ pc[p] = "pget"
    /\ \E queryFails \in (IF op[p].scope = "session" THEN {FALSE} ELSE QueryOutcomes) :
         LET raw == IF op[p].scope = "session" THEN hist[p].raw
                    ELSE GetRaw(op[p].name, op[p].scope, queryFails)
             o   == PathSet(op[p], raw)
         IN  /\ hist' = [hist EXCEPT ![p].raw = raw]
             /\ op' = [op EXCEPT ![p] = o]
             /\ IF o.scope = "session"
                THEN /\ env' = SessionEnv(env, o)
                     /\ res' = [res EXCEPT ![p] = SessionResult]
                     /\ pc' = [pc EXCEPT ![p] = "done"]
                ELSE /\ env' = env
                     /\ res' = res
                     /\ pc' = [pc EXCEPT ![p] = "export"]
    /\ UNCHANGED <<conf, backupDir, dirs, medium, backups, now, nops,
                   oldContent, backupPath>>

\* envManager.delim: isWin ? ";" : ":"
Delim == IF platform = "win" THEN ";" ELSE ":"

\* the values a PATH-like variable holds before the calls
PathValues == {Undef, <<"/", "a", Delim, "/", "b">>, <<"/", "b">>}

\* the values --values and the values argument name
PathArgs == {<<"/", "a">>, <<"/", "b">>, <<"/", "A">>}

\* the user and system keys that hold FOO, on Windows
PathMedia(v) ==
    [s \in Scopes |-> IF platform = "win" /\ s # "session"
                      THEN KeyOf([n \in Names |-> IF n = "FOO" THEN v ELSE Undef])
                      ELSE NoFile]

AppendInit ==
    /\ platform \in {"posix", "win"}
    /\ hasRequire = FALSE
    /\ limit = MaxAppendOps
    /\ backupDir = Null
    /\ dirs = {}
    /\ \E v \in PathValues :
         /\ env = [n \in Names |-> IF n = "FOO" THEN v ELSE Undef]
         /\ medium = PathMedia(v)
    /\ backups = {}
    /\ now = 0
    /\ nops = 0
    /\ pc = [p \in Procs |-> "idle"]
    /\ op = [p \in Procs |-> NoOp]
    /\ oldContent = [p \in Procs |-> NoSnapshot]
    /\ backupPath = [p \in Procs |-> NoPath]
    /\ res = [p \in Procs |-> NoRes]
    /\ hist = [p \in Procs |-> NoHist]

AppendNext ==
    \/ \E kind \in {"prepend", "append"}, n \in OpNames, s \in Scopes, v \in PathArgs :
         CallPath(Caller, kind, n, s, <<v>>, TRUE, FALSE)
    \/ PathGet(Caller)
    \/ Export(Caller)
    \/ CreateBackup(Caller)
    \/ Write(Caller)
    \/ Verify(Caller)
    \/ Rollback(Caller)

AppendSpec == AppendInit /\ [][AppendNext]_vars

-----------------------------------------------------------------------------
(* The CLI: cli.mjs main *)

CliCommands == {"set", "unset"} \cup PathOps

\* set and unset with --dry-run: printResult({ ok: true, dryRun: true, ... })
DryRunPrint(p, cmd, name, value, scope) ==
    /\ EnterWith(p, [NoOp EXCEPT !.kind = cmd, !.name = name, !.value = value,
                                 !.scope = scope],
                 NoSnapshot, NoPath,
                 [NoHist EXCEPT !.dryRun = TRUE, !.dirarg = hist[p].dirarg])
    /\ pc' = [pc EXCEPT ![p] = "done"]
    /\ res' = [res EXCEPT ![p] = NoRes]
    /\ UNCHANGED <<conf, backupDir, dirs, env, medium, backups, now>>

\* main(argv) for the commands set, unset and path prepend, append, remove,
\* sort, unique, up to the first await; --backup and --verify are not given
Cli(p, cmd, name, value, scope, values, unique, dryRun) ==
    IF cmd = "set"
    THEN IF dryRun THEN DryRunPrint(p, cmd, name, value, scope)
         ELSE CallSet(p, name, value, scope, TRUE, TRUE, TRUE)
    ELSE IF cmd = "unset"
    THEN IF dryRun THEN DryRunPrint(p, cmd, name, value, scope)
         ELSE CallUnset(p, name, scope, TRUE, TRUE, TRUE)
    ELSE CallPath(p, cmd, name, scope, SplitText(values, Delim), unique, dryRun)

CliInit ==
    /\ platform \in {"posix", "win"}
    /\ hasRequire = FALSE
    /\ limit = MaxCliOps
    /\ backupDir = Null
    /\ dirs = {}
    /\ env = [n \in Names |-> IF n = "FOO" THEN <<"/", "b", Delim, "/", "a">> ELSE Undef]
    /\ medium \in {EmptyMedia, PathMedia(<<"/", "b", Delim, "/", "a">>)}
    /\ backups = {}
    /\ now = 0
    /\ nops = 0
    /\ pc = [p \in Procs |-> "idle"]
    /\ op = [p \in Procs |-> NoOp]
    /\ oldContent = [p \in Procs |-> NoSnapshot]
    /\ backupPath = [p \in Procs |-> NoPath]
    /\ res = [p \in Procs |-> NoRes]
    /\ hist = [p \in Procs |-> NoHist]

CliNext ==
    \/ \E cmd \in CliCommands, s \in Scopes, v \in PathArgs, dryRun \in BOOLEAN :
         Cli(Caller, cmd, "FOO", v, s, v, FALSE, dryRun)
    \/ PathGet(Caller)
    \/ ReadFile(Caller)
    \/ Export(Caller)
    \/ CreateBackup(Caller)
    \/ Write(Caller)
    \/ Verify(Caller)
    \/ Rollback(Caller)

CliSpec == CliInit /\ [][CliNext]_vars

-----------------------------------------------------------------------------
(* unset on the POSIX files, for names the files hold and do not hold *)

\* ~/.profile: missing, without markers, with a block of one line, with an
\* empty block, with an empty line in the block, with a begin marker only
UnsetProfiles ==
    { NoFile,
      FileOf(<<Text, Empty>>),
      FileOf(<<Text, Begin, ExportLine("BAR", <<"b">>), End, Text, Empty>>),
      FileOf(<<Begin, End, Empty>>),
      FileOf(<<Begin, ExportLine("BAR", <<"b">>), Empty, End, Empty>>),
      FileOf(<<Text, Begin, ExportLine("BAR", <<"b">>), Empty>>) }

\* /etc/environment: missing, with the line of one name
UnsetSystemFiles ==
    { NoFile,
      FileOf(<<AssignLine("BAR", <<"b">>), Empty>>),
      FileOf(<<Text, AssignLine("BAR", <<"b">>)>>) }

UnsetInit ==
    /\ platform = "posix"
    /\ hasRequire = FALSE
    /\ limit = MaxUnsetOps
    /\ backupDir = Null
    /\ dirs = {}
    /\ env = [n \in Names |-> Undef]
    /\ medium \in {[s \in Scopes |-> IF s = "user" THEN u
                                     ELSE IF s = "system" THEN y ELSE NoFile] :
                      u \in UnsetProfiles, y \in UnsetSystemFiles}
    /\ backups = {}
    /\ now = 0
    /\ nops = 0
    /\ pc = [p \in Procs |-> "idle"]
    /\ op = [p \in Procs |-> NoOp]
    /\ oldContent = [p \in Procs |-> NoSnapshot]
    /\ backupPath = [p \in Procs |-> NoPath]
    /\ res = [p \in Procs |-> NoRes]
    /\ hist = [p \in Procs |-> NoHist]

UnsetNext ==
    \/ \E n \in {"FOO", "BAR"}, s \in PersistentScopes, b \in BOOLEAN :
         CallUnset(Caller, n, s, b, TRUE, TRUE)
    \/ \E s \in PersistentScopes : CallSet(Caller, "FOO", <<"a">>, s, FALSE, TRUE, TRUE)
    \/ ReadFile(Caller)
    \/ CreateBackup(Caller)
    \/ Write(Caller)
    \/ Verify(Caller)

UnsetSpec == UnsetInit /\ [][UnsetNext]_vars

-----------------------------------------------------------------------------
(* purge on a backup directory that holds files of other programs *)

\* a file createBackup did not name: prefix is its name up to the first "-"
\* (the whole name when it has none), rest what follows; it has no timestamp
ForeignFile(prefix, rest) ==
    [dir |-> GetDefaultBackupDir, scope |-> prefix, name |-> rest, ts |-> -1]

\* "notes.txt", "report-BAR.txt" and "report-FOO.txt"
ForeignFiles ==
    {ForeignFile("notes.txt", NoName), ForeignFile("report", "BAR"),
     ForeignFile("report", "FOO")}

\* the policies of the calls of purge: 20 is the default of maxPerScope
ForeignPerScope == {0, 1, 20}

ForeignInit ==
    /\ platform = "posix"
    /\ hasRequire = FALSE
    /\ limit = MaxForeignOps
    /\ backupDir = Null
    /\ dirs = {GetDefaultBackupDir}
    /\ env = [n \in Names |-> Undef]
    /\ medium = EmptyMedia
    /\ backups = {[file |-> f, content |-> SomeContent] : f \in ForeignFiles}
    /\ now = 0
    /\ nops = 0
    /\ pc = [p \in Procs |-> "idle"]
    /\ op = [p \in Procs |-> NoOp]
    /\ oldContent = [p \in Procs |-> NoSnapshot]
    /\ backupPath = [p \in Procs |-> NoPath]
    /\ res = [p \in Procs |-> NoRes]
    /\ hist = [p \in Procs |-> NoHist]

ForeignNext ==
    \/ Tick
    \/ \E s \in PersistentScopes, n \in PurgeNames :
         CallCreateBackup(Caller, s, n, SomeContent)
    \/ CreateBackup(Caller)
    \/ \E m \in ForeignPerScope, a \in AgeChoices : CallPurge(Caller, m, a)
    \/ PurgeDir(Caller)

ForeignSpec == ForeignInit /\ [][ForeignNext]_vars

-----------------------------------------------------------------------------
(* Properties *)

IsMutation(p) == op[p].kind \in {"set", "unset"}

\* a set or unset that runs the write-verify-rollback protocol
IsProtocol(p) == IsMutation(p) /\ op[p].scope # "session"

Ended(p) == pc[p] \in {"done", "threw"}

\* the content of a medium, as a snapshot holds it
SnapshotOf(m) ==
    IF platform = "posix" THEN Snapshot(ReadContent(m), EmptyKey)
    ELSE Snapshot(<<>>, m.reg)

\* the mutation of p has changed the medium and has not rolled it back
Effective(p) ==
    /\ Ended(p)
    /\ IsMutation(p)
    /\ op[p].scope = "session" \/ hist[p].wrote
    /\ res[p].rollback # "true"

\* C1: after a set whose write was made, getRaw with the same name and scope
\* returns exactly the value that was set, for every scope on both adapters.
C1_SetThenGetRaw ==
    \A p \in Procs :
        Effective(p) /\ op[p].kind = "set"
            => GetRaw(op[p].name, op[p].scope, FALSE) = op[p].value

\* C2: after an unset whose write was made, getRaw with the same name and
\* scope returns undefined, for every scope on both adapters.
C2_UnsetThenGetRaw ==
    \A p \in Procs :
        Effective(p) /\ op[p].kind = "unset"
            => GetRaw(op[p].name, op[p].scope, FALSE) = Undef

\* C3: whenever a set or unset with backup enabled has written to the medium
\* of the user or system scope, a backup record of that scope and name holds
\* exactly the content the medium had before the write.
C3_BackupBeforeWrite ==
    \A p \in Procs :
        IsProtocol(p) /\ op[p].backup /\ hist[p].wrote
            => \E b \in backups :
                 /\ b.file.scope = op[p].scope
                 /\ b.file.name = op[p].name
                 /\ b.content = SnapshotOf(hist[p].pre)

\* C4: when a set or unset at user or system scope returns after a re-read
\* that did not match the intended state, with rollbackOnFail and backup both
\* enabled, the medium holds its pre-mutation content and rollback is true.
C4_RollbackRestores ==
    \A p \in Procs :
        /\ pc[p] = "done"
        /\ IsProtocol(p)
        /\ hist[p].reread
        /\ hist[p].got # Intended(op[p])
        /\ op[p].rollbackOnFail
        /\ op[p].backup
        => /\ SnapshotOf(medium[op[p].scope]) = SnapshotOf(hist[p].pre)
           /\ res[p].rollback = "true"

C6_WriteFailureIsResult ==
    \A p \in Procs :
        IsProtocol(p) /\ hist[p].wfail
            => pc[p] = "done" /\ ~res[p].ok /\ res[p].note = "error"

\* C7: getRaw at user or system scope never throws, and gives undefined when
\* the medium does not hold the name.
C7_GetRawNeverFails ==
    \A p \in Procs :
        op[p].kind = "getRaw" /\ op[p].scope # "session"
            => /\ pc[p] # "threw"
               /\ pc[p] = "done" /\ SnapshotOf(medium[op[p].scope]) = SnapshotOf(NoFile)
                    => res[p].value = Undef

\* two names of one variable: the Windows environment ignores letter case
SameVariable(a, b) ==
    a = b \/ (platform = "win" /\ CASE_NORMALIZE(a) = CASE_NORMALIZE(b))

\* the step is a call of set or unset at scope session by p
SessionCall(p) ==
    /\ nops' = nops + 1
    /\ op'[p].kind \in {"set", "unset"}
    /\ op'[p].scope = "session"

C9_NoVerifyNoReread ==
    \A p \in Procs :
        IsProtocol(p) /\ ~op[p].verify
            => ~hist[p].reread /\ pc[p] # "rollback" /\ res[p].rollback # "true"

\* the entries of name n in the encoding of the medium of a scope: the export
\* lines of the managed block, the NAME='value' lines, the registry values
Entries(m, scope, n) ==
    IF platform = "win" THEN {i \in {1} : m.reg[n] # Undef}
    ELSE IF scope = "user"
    THEN {i \in 1..Len(BlockLines(ReadContent(m))) :
            /\ BlockLines(ReadContent(m))[i].k = "export"
            /\ BlockLines(ReadContent(m))[i].n = n}
    ELSE {i \in 1..Len(ReadContent(m)) :
            ReadContent(m)[i].k = "assign" /\ ReadContent(m)[i].n = n}

\* C11: after any sequence of set and unset calls at user or system scope on a
\* medium that started empty, the encoding of the medium holds at most one
\* entry for each variable name.
C11_OneEntryPerName ==
    \A s \in PersistentScopes, n \in Names :
        Cardinality(Entries(medium[s], s, n)) <= 1

\* a purge of p has returned after it read the directory and every unlink it
\* made succeeded
Purged(p) ==
    /\ pc[p] = "done"
    /\ op[p].kind = "purge"
    /\ hist[p].read
    /\ hist[p].failed = {}

\* the smaller of two numbers
Min(a, b) == IF a <= b THEN a ELSE b

\* C12: a purge with maxPerScope = N and maxAgeDays = 9999 leaves, in each
\* scope, the N most recent records of the scope (all of them when there are
\* fewer): no deleted record is more recent than one that stays, also when the
\* records of the scope are of several variable names.
C12_KeepsMostRecent ==
    \A p \in Procs :
        Purged(p) /\ op[p].maxAgeDays = 9999
            => \A s \in Scopes :
                 LET before == ByScope(hist[p].files, s)
                     after  == ByScope(Readdir(backups), s)
                 IN  /\ after \subseteq before
                     /\ Cardinality(after) = Min(op[p].maxPerScope, Cardinality(before))
                     /\ \A a \in after, d \in before \ after : a.file.ts >= d.file.ts

\* C13: a purge deletes every record whose timestamp is more than maxAgeDays
\* days before the time of the purge, however many records its scope holds.
C13_DeletesOld ==
    \A p \in Procs :
        Purged(p)
            => \A b \in hist[p].files :
                 hist[p].time - b.file.ts > op[p].maxAgeDays => b \notin backups

\* a purge of p has returned
PurgeReturned(p) == pc[p] = "done" /\ op[p].kind = "purge"

\* the files a purge of p has read and that are no longer in the directory
Deleted(p) == hist[p].files \ backups

RecordsOf(files, scope) == {b \in files : b.file.scope = scope}

\* C15: the records of a scope that a purge deletes are those it would delete
\* from a directory that holds the records of that scope only (those of them
\* whose unlink does not fail): the records of the other scopes do not count.
C15_ScopeIndependent ==
    \A p \in Procs :
        PurgeReturned(p) /\ hist[p].read
            => \A s \in Scopes :
                 RecordsOf(Deleted(p), s)
                   = PurgeTargets(RecordsOf(hist[p].files, s), hist[p].time,
                                  op[p].maxPerScope, op[p].maxAgeDays)
                     \ hist[p].failed

\* C15 witness: a purge with maxPerScope 1 has deleted the older of the two
\* records of scope user and kept the one record of scope system.
C15_Witness ==
    \E p \in Procs :
        /\ PurgeReturned(p)
        /\ hist[p].read
        /\ op[p].maxPerScope = 1
        /\ Cardinality(RecordsOf(hist[p].files, "user")) = 2
        /\ Cardinality(RecordsOf(hist[p].files, "system")) = 1
        /\ Cardinality(RecordsOf(Deleted(p), "user")) = 1
        /\ RecordsOf(Deleted(p), "system") = {}

\* a createBackup of p has returned
BackupReturned(p) == pc[p] = "done" /\ op[p].kind = "createBackup"

\* C16: a createBackup(scope, name, content) that returns after setBackupDir(d)
\* with an absolute d has made the directory d, returns the path of a file of
\* d named scope-name-timestamp.bak, the timestamp being the instant of the
\* call with "-" for ":" and ".", and that file holds exactly content.
C16_CreateBackupFile ==
    \A p \in Procs :
        BackupReturned(p) /\ IsAbsolute(hist[p].dirarg)
            => /\ hist[p].dirarg \in dirs
               /\ backupPath[p].dir = hist[p].dirarg
               /\ IdOf(backupPath[p]) = Id(op[p].scope, op[p].name, hist[p].time)
               /\ StampOf(backupPath[p])
                    = [t |-> hist[p].time, dsep |-> "-", tsep |-> "-", tail |-> "SS-mmmZ"]
               /\ \E b \in backups :
                    b.file = backupPath[p] /\ b.content = oldContent[p]

\* C16 witness: after setBackupDir("/tmp/x"), a createBackup at scope user made
\* on day 1 has returned, and /tmp/x is the one directory there is.
C16_Witness ==
    \E p \in Procs :
        /\ BackupReturned(p)
        /\ hist[p].dirarg = [abs |-> TRUE, segs |-> <<"tmp", "x">>]
        /\ dirs = {hist[p].dirarg}
        /\ op[p].scope = "user"
        /\ hist[p].time = 1
        /\ \E b \in backups : b.file = backupPath[p] /\ b.content = SomeContent

\* the step is the return of a createBackup of p
BackupReturns(p) ==
    /\ pc[p] = "backup"
    /\ op[p].kind = "createBackup"
    /\ pc'[p] = "done"

\* C17: a createBackup that returns has added one record that holds the
\* content of its call and has left every other record as it was, also when
\* another call for the same scope and name was made in the same instant.
C17_AppendOnly ==
    [][\A p \in Procs :
         BackupReturns(p)
            => /\ backups \subseteq backups'
               /\ Cardinality(backups') = Cardinality(backups) + 1
               /\ \E b \in backups' \ backups : b.content = oldContent[p]]_vars

\* an id that is not scope-name-timestamp.bak: the scope is none of the
\* three, or there is no name
OutOfPattern(id) == id.scope \notin Scopes \/ id.name = NoName

\* a restore of p with an id that is not of the pattern is pending
RestoringNoMatch(p) ==
    /\ op[p].kind = "restore"
    /\ OutOfPattern(op[p].id)
    /\ ~Idle(p)

\* C18: a restore with an id that does not match scope-name-timestamp.bak
\* returns false, does not throw, and changes no medium and no entry of the
\* process environment.
C18_NoMatchNoRestore ==
    [][\A p \in Procs :
         RestoringNoMatch(p)
            => /\ medium' = medium
               /\ env' = env
               /\ pc'[p] # "threw"
               /\ pc'[p] = "done" => ~res'[p].ok]_vars

\* C18 witness: a restore of the file user--timestamp.bak, which is there and
\* was read, has returned false and the media are as they were.
C18_Witness ==
    \E p \in Procs :
        /\ pc[p] = "done"
        /\ op[p].kind = "restore"
        /\ op[p].id.scope = "user"
        /\ OutOfPattern(op[p].id)
        /\ hist[p].read
        /\ ~res[p].ok
        /\ medium = StoreMedia

\* C19: a restore of the record createBackup(scope, name, content) made, for a
\* scope user or system and a variable name, that read the record and met no
\* I/O failure, returns true and leaves the medium of the scope holding exactly
\* content, whatever it held before.
C19_RestoreRoundTrip ==
    \A p \in Procs :
        /\ Ended(p)
        /\ op[p].kind = "restore"
        /\ op[p].id.scope \in PersistentScopes
        /\ op[p].id.name # NoName
        /\ hist[p].read
        /\ ~hist[p].wfail
        => /\ pc[p] = "done"
           /\ res[p].ok
           /\ SnapshotOf(medium[op[p].id.scope]) = oldContent[p]

\* C20: restoreFromBackup never throws: it returns false at scope session
\* without a write to a medium, false when the staging of the data, the write
\* or the import fails, and true otherwise.
C20_RestoreFromBackupBoolean ==
    \A p \in Procs :
        op[p].kind = "restoreFromBackup"
            => /\ pc[p] # "threw"
               /\ pc[p] = "done"
                    => /\ op[p].scope = "session" => ~res[p].ok /\ ~hist[p].wrote
                       /\ hist[p].wfail => ~res[p].ok
                       /\ op[p].scope # "session" /\ ~hist[p].wfail => res[p].ok

\* a getExpanded of p has returned
ExpandReturned(p) == pc[p] = "done" /\ op[p].kind = "getExpanded"

\* the sign a reference begins with
Sigil == IF platform = "win" THEN "%" ELSE "$"

\* a text without a reference
NoReference(val) == \A i \in 1..Len(val) : val[i] # Sigil

\* the value name n has in the live process environment, the empty text when
\* it has none
Live(n) == IF env[AdapterName(n)] = Undef THEN <<>> ELSE env[AdapterName(n)]

\* the texts around the one reference of a raw value
PlainBefore == {<<>>, <<"x", "/">>}

PlainAfter == {<<>>, <<"/", "a">>, <<"/", "b">>, <<";", "x">>}

C22_SelfReferenceLiteral ==
    \A p \in Procs :
        ExpandReturned(p)
            => \A n \in Names, pre \in PlainBefore, post \in PlainAfter :
                 /\ SameVariable(n, op[p].name)
                 /\ hist[p].raw \in {pre \o Ref(n) \o post, pre \o BraceRef(n) \o post}
                 => res[p].value = hist[p].raw

\* the value the variable of name n has at a scope: its entry of the process
\* environment, or its value of the registry key
Stored(n, scope) ==
    IF scope = "session" THEN env[AdapterName(n)]
    ELSE medium[scope].reg[AdapterName(n)]

\* C23: on Windows every operation puts the name in upper case first: the name
\* of every set and unset result is in upper case; two names that differ in
\* letter case only read the same value with getRaw; the write of a set or
\* unset through either name is made to the one variable; and a getExpanded
\* through either name leaves a reference to the variable itself as it is.
C23_CaseNormalized ==
    \A p \in Procs :
        /\ IsMutation(p) => op[p].name = CASE_NORMALIZE(op[p].name)
        /\ \A a, b \in OpNames, s \in Scopes :
             SameVariable(a, b) => GetRaw(a, s, FALSE) = GetRaw(b, s, FALSE)
        /\ IsMutation(p) /\ (op[p].scope = "session" \/ pc[p] = "verify")
             => \A n \in OpNames :
                  SameVariable(n, op[p].name) => Stored(n, op[p].scope) = Intended(op[p])
        /\ ExpandReturned(p)
             => \A n \in OpNames, post \in PlainAfter :
                  /\ SameVariable(n, op[p].name)
                  /\ hist[p].raw = <<"%", n, "%">> \o post
                  => res[p].value = hist[p].raw

\* the directory the calls of p work in when p is the one caller: the argument
\* of the last setBackupDir, and .backup/.envm-backups under the project root when there
\* was none
DirOf(p) ==
    IF hist[p].dirarg # Null THEN hist[p].dirarg
    ELSE [abs |-> TRUE,
          segs |-> (IF hasRequire THEN <<"main">> ELSE <<"cwd">>)
                   \o <<".backup", ".envm-backups">>]

\* the files of directory d
FilesIn(d) == {b \in backups : b.file.dir = d}

\* C24: after setBackupDir(d) with an absolute d, and before any setBackupDir
\* with d the default directory, getBackupDir() is d; every createBackup (also
\* one a set makes) writes its file in d, every restore reads its file in d,
\* a list that read its directory gives the files of its scope in d, and a
\* purge reads and deletes files of d only.
C24_DirProcessWide ==
    \A p \in {Caller} :
        hist[p].dirarg = Null \/ IsAbsolute(hist[p].dirarg)
            => /\ GetBackupDir = DirOf(p)
               /\ backupPath[p] # NoPath => backupPath[p].dir = DirOf(p)
               /\ op[p].kind \in {"list", "purge"}
                    => \A b \in hist[p].files : b.file.dir = DirOf(p)
               /\ pc[p] = "done" /\ op[p].kind = "list" /\ hist[p].read
                    => hist[p].files
                         = {b \in FilesIn(DirOf(p)) : b.file.scope = op[p].scope}
               /\ pc[p] = "done" /\ op[p].kind = "purge" /\ hist[p].read
                    => /\ FilesIn(DirOf(p)) = hist[p].failed
                       /\ res[p].count = Cardinality(hist[p].files \ hist[p].failed)

\* C24 witness: a backup was made in the default directory, and after
\* setBackupDir("/tmp/x") and a second backup a purge that keeps no file has
\* deleted the file of /tmp/x and left the file of the default directory.
C24_Witness ==
    \E p \in Procs :
        /\ pc[p] = "done"
        /\ op[p].kind = "purge"
        /\ hist[p].dirarg = [abs |-> TRUE, segs |-> <<"tmp", "x">>]
        /\ res[p].count = 1
        /\ FilesIn(hist[p].dirarg) = {}
        /\ \E b \in backups : b.file.dir.segs = <<"cwd", ".backup", ".envm-backups">>

\* the step is the write of a set or unset of p
Writes(p) == pc[p] = "write" /\ pc'[p] = "verify"

\* C25: there is no serialization in the process: the content a set writes is
\* the content it read with its own change, whatever another set has written
\* to the medium since that read; so an interleaving of two sets is reachable
\* after which both writes were made and the medium lacks the change of one.
C25_NoSerialization ==
    [][\A p \in Procs :
         Writes(p)
            => medium'[op[p].scope]
                 = FileOf(PosixNewContent(op[p], oldContent[p].lines))]_vars

\* C25 witness: two sets of two names at one scope have both written the
\* medium, and the medium has no entry of the name of one of them.
C25_LostUpdate ==
    \E p, q \in Procs :
        /\ p # q
        /\ op[p].kind = "set" /\ op[q].kind = "set"
        /\ op[p].scope = op[q].scope
        /\ op[p].name # op[q].name
        /\ hist[p].wrote /\ hist[q].wrote
        /\ Entries(medium[op[p].scope], op[p].scope, op[q].name) # {}
        /\ Entries(medium[op[p].scope], op[p].scope, op[p].name) = {}

\* a split of what join returned for segments has returned
RoundTrip(p) == pc[p] = "done" /\ op[p].kind = "split" /\ hist[p].joined

\* no segment holds the delimiter and none is empty
NoDelimNoEmpty(segments, delim) ==
    \A i \in 1..Len(segments) :
        /\ segments[i] # <<>>
        /\ \A j \in 1..Len(segments[i]) : segments[i][j] # delim

\* no segment begins or ends with a blank
NoOuterBlank(segments) ==
    \A i \in 1..Len(segments) :
        segments[i] # <<>> => segments[i][1] # " " /\ segments[i][Len(segments[i])] # " "

\* C26 as stated: split(join(segments, d), d) equals segments for every
\* sequence of segments without the delimiter and without an empty segment,
\* also when a segment begins or ends with whitespace or is whitespace only.
C26_RoundTripAnyBlank ==
    \A p \in Procs :
        RoundTrip(p) /\ NoDelimNoEmpty(op[p].segments, op[p].delim)
            => res[p].segments = op[p].segments

\* C26 amended: split(join(segments, d), d) equals segments for every sequence
\* of segments without the delimiter, without an empty segment and without a
\* segment that begins or ends with whitespace; and a segment with whitespace
\* at its ends comes back trimmed.
C26_RoundTrip ==
    \A p \in Procs :
        RoundTrip(p) /\ NoDelimNoEmpty(op[p].segments, op[p].delim)
            => /\ NoOuterBlank(op[p].segments) => res[p].segments = op[p].segments
               /\ Len(res[p].segments) = Len(op[p].segments)
               /\ \A i \in 1..Len(op[p].segments) :
                    res[p].segments[i] = Trim(op[p].segments[i])

\* C26 witness: the round trip of two segments, one of them with a blank
\* inside, has given the two segments back.
C26_Witness ==
    \E p \in Procs :
        /\ RoundTrip(p)
        /\ op[p].segments = << <<"a", " ", "b">>, <<"a">> >>
        /\ res[p].segments = op[p].segments

\* two segments that unique takes for one: equal, or equal after uppercasing
\* when the letter case is not to count
SameSegment(a, b, caseInsensitive) ==
    IF caseInsensitive THEN ToUpperCase(a) = ToUpperCase(b) ELSE a = b

\* the segments of s that no segment before them is the same as
FirstOccurrences(s, caseInsensitive) ==
    SegmentsAt(s, {i \in 1..Len(s) :
                     \A j \in 1..(i - 1) : ~SameSegment(s[j], s[i], caseInsensitive)})

PathReturned(p, kind) == pc[p] = "done" /\ op[p].path = kind

\* text ends with v
EndsWith(text, v) ==
    /\ text # Undef
    /\ Len(text) >= Len(v)
    /\ SubSeq(text, Len(text) - Len(v) + 1, Len(text)) = v

\* text starts with v
StartsWith(text, v) ==
    /\ text # Undef
    /\ Len(text) >= Len(v)
    /\ SubSeq(text, 1, Len(v)) = v

\* C28: with --dry-run no step of a CLI command changes the process
\* environment, a medium or a backup record, for set, unset and every path
\* subcommand
C28_DryRunNoChange ==
    [][\A p \in Procs : hist'[p].dryRun =>
          /\ env' = env
          /\ medium' = medium
          /\ backups' = backups]_vars

\* the segments of the value the variable held when the helper read it
PriorSegments(p) == Split(OrEmpty(hist[p].raw), op[p].delim)

\* some segment the variable held is the value, as unique compares them
AlreadySegment(p, v) ==
    \E i \in 1..Len(PriorSegments(p)) :
        SameSegment(PriorSegments(p)[i], v, platform = "win")

ExportsInBlock(lines, name, same) ==
    SelectSeq(BlockLines(lines),
              LAMBDA l : l.k = "export" /\ ((l.n = name) <=> same))

\* C30: the content an unset at POSIX user scope writes to the profile file
\* has no export line of the target name in the managed block, and has the
\* export lines of the other names of the block as they were
C30_UnsetRemovesExport ==
    [][\A p \in Procs :
          /\ platform = "posix"
          /\ op[p].kind = "unset" /\ op[p].scope = "user"
          /\ pc[p] = "write" /\ pc'[p] = "verify"
          => /\ ExportsInBlock(ReadContent(medium'["user"]), op[p].name, TRUE) = <<>>
             /\ ExportsInBlock(ReadContent(medium'["user"]), op[p].name, FALSE)
                  = ExportsInBlock(oldContent[p].lines, op[p].name, FALSE)]_vars


\* a set or unset at user or system scope has returned a result
ProtocolReturned(p) == pc[p] = "done" /\ IsProtocol(p)

\* C31: when the result of a set or unset at user or system scope has
\* rollback true, the medium holds its pre-mutation content as the result is
\* returned, verification was false and rollbackOnFail and backup were
\* enabled; a result without rollback true leaves the medium as written
C31_RollbackTrueRestored ==
    \A p \in Procs :
        ProtocolReturned(p) /\ hist[p].wrote
            => IF res[p].rollback = "true"
               THEN /\ SnapshotOf(medium[op[p].scope]) = SnapshotOf(hist[p].pre)
                    /\ ~res[p].verification
                    /\ op[p].rollbackOnFail
                    /\ op[p].backup
               ELSE medium[op[p].scope] = Written(hist[p].pre, op[p], oldContent[p])


\* the step is the failure of the export or of createBackup in the set or
\* unset of p
BackupFails(p) ==
    \/ pc[p] = "export" /\ pc'[p] # "backup"
    \/ pc[p] = "backup" /\ backupPath'[p] = NoPath

\* C32: when the export or createBackup fails in a set or unset at user or
\* system scope with backup enabled, the call throws, and such a call writes
\* to the medium only with its backup made
C32_BackupFailurePropagates ==
    [][\A p \in Procs :
          IsProtocol(p) /\ op[p].backup
             => /\ BackupFails(p) => pc'[p] = "threw"
                /\ pc[p] = "write" /\ hist'[p].wrote => backupPath[p] # NoPath]_vars


\* a POSIX unset at user or system scope has written, and the content it read
\* had no entry of its name
UnsetOfAbsent(p) ==
    /\ platform = "posix"
    /\ op[p].kind = "unset"
    /\ op[p].scope # "session"
    /\ hist[p].wrote
    /\ Entries(hist[p].pre, op[p].scope, op[p].name) = {}

\* the lines between the markers of the block: there is one at least, none is
\* empty and none begins "exports", the name, "="
PlainBlock(content, name) ==
    /\ HasBlock(content)
    /\ BlockEnd(content) > BlockBegin(content) + 1
    /\ \A i \in (BlockBegin(content) + 1)..(BlockEnd(content) - 1) :
          NonEmptyLine(content[i]) /\ ~UnsetLineMatches(content[i], name)

IsRecordName(file) == file.scope \in Scopes /\ file.ts >= 0

\* C34: no step of purge deletes a file of the backup directory whose name
\* does not follow scope-name-timestamp.bak, whatever the policy
C34_PurgeKeepsForeign ==
    [][\A b \in backups : ~IsRecordName(b.file) => b \in backups']_vars

\* the lines of content before its managed block, all of them without a block
Before(content) ==
    IF HasBlock(content) THEN SubSeq(content, 1, BlockBegin(content) - 1)
    ELSE content

\* the lines of content after its managed block
After(content) ==
    IF HasBlock(content) THEN SubSeq(content, BlockEnd(content) + 1, Len(content))
    ELSE <<>>

\* new differs from old inside the managed block only; when old has no block,
\* new is old followed by one block
OutsidePreserved(old, new) ==
    /\ Len(new) >= Len(Before(old)) + Len(After(old)) + 2
    /\ SubSeq(new, 1, Len(Before(old))) = Before(old)
    /\ SubSeq(new, Len(new) - Len(After(old)) + 1, Len(new)) = After(old)
    /\ new[Len(Before(old)) + 1] = Begin
    /\ IF HasBlock(old)
       THEN new[Len(new) - Len(After(old))] = End
       ELSE /\ new[Len(new) - 1] = End
            /\ new[Len(new)] = Empty
            /\ \A i \in Len(old) + 2 .. Len(new) - 2 : new[i].k \notin {"begin", "end"}

\* C10: on POSIX at user scope, the content set or unset writes keeps every
\* line outside the managed block of the content read, and when the content
\* read has no block it is the content read followed by one block.
C10_OutsidePreserved ==
    \A p \in Procs :
        /\ platform = "posix"
        /\ IsMutation(p)
        /\ op[p].scope = "user"
        /\ hist[p].wrote
        => OutsidePreserved(oldContent[p].lines, medium["user"].lines)

====
